---- MODULE Spec2Model ----
(***************************************************************************)
(* Admission / protection / job-slot layer of backend/src/main.rs:         *)
(* the durable sliding-window rate limiter, the anti-bot engine (delegated *)
(* verification or local proof of work), the download permit pool and the  *)
(* history ledger, as the /api/download and /api/antibot/challenge         *)
(* handlers drive them.  Every .await of a handler is a step boundary;     *)
(* what runs between two awaits is one atomic action.  Time is in          *)
(* milliseconds, so that chrono's num_seconds() truncation is visible.     *)
(***************************************************************************)
EXTENDS Integers, Sequences, FiniteSets, TLC

(* ------------------------------------------------------------------ *)
(* Program constants                                                   *)
(* ------------------------------------------------------------------ *)
DOWNLOAD_LIMIT_PER_DAY == 10
DOWNLOAD_WINDOW_HOURS == 24
ANTIBOT_DIFFICULTY_HEX_PREFIX == 3
ANTIBOT_CHALLENGE_TTL_SECONDS == 300
ANTIBOT_MIN_ELAPSED_MS == 900
MAX_ANTIBOT_CHALLENGES == 20000
DEFAULT_MAX_CONCURRENT_DOWNLOADS == 3
HISTORY_PER_IP_LIMIT == 10
MAX_DOWNLOAD_BYTES == 262144000
DOWNLOAD_JOB_RETENTION_SECONDS == 1200
STALE_DOWNLOAD_JOB_SECONDS == 7200
YT_DLP_TIMEOUT_SECONDS == 180
HISTORY_MAX_ENTRIES == 2000

(* HTTP status codes of ApiError and of a served response *)
STATUS_OK == 200
BAD_REQUEST == 400
FORBIDDEN == 403
TOO_MANY_REQUESTS == 429
INTERNAL_SERVER_ERROR == 500

(* chrono::Duration::hours / seconds, in milliseconds *)
MsPerSecond == 1000
Hours(h) == h * 3600 * MsPerSecond
Seconds(s) == s * MsPerSecond

(* ------------------------------------------------------------------ *)
(* Bounds of the model                                                 *)
(* ------------------------------------------------------------------ *)
MaxAttempts == 2       \* requests to /api/download, /api/history taken up
MaxStoredShort == 1    \* the stored document is at most this short of the limit
MaxChallenges == 1     \* challenge ids (uuids) the run may generate
MaxListing == 2        \* entries read_dir finds in a job directory

NONE == "none"

(* Option<T>: None is the empty sequence, Some(x) the sequence of x alone *)
None == <<>>
Some(x) == <<x>>

Clients == {"1.2.3.4", "5.6.7.8"}
(* one slot for each request handler of the run: the /api/download *)
(* requests in the order they are taken up, then the challenges    *)
DownloadSlots == 1..MaxAttempts
ChallengeSlot(cid) == MaxAttempts + cid
Slots == 1..(MaxAttempts + MaxChallenges)
Ids == 1..MaxChallenges
Solutions == {0, 1}

(* ------------------------------------------------------------------ *)
(* Pure helpers                                                        *)
(* ------------------------------------------------------------------ *)
Max(a, b) == IF a >= b THEN a ELSE b

(* chrono::Duration::num_seconds: whole seconds, truncated toward zero *)
NumSeconds(d) == IF d >= 0 THEN d \div MsPerSecond ELSE -((-d) \div MsPerSecond)

(* insertion of one timestamp into a sorted Vec *)
RECURSIVE InsertSorted(_, _)
InsertSorted(s, x) ==
    IF s = <<>> THEN <<x>>
    ELSE IF x < Head(s) THEN <<x>> \o s
         ELSE <<Head(s)>> \o InsertSorted(Tail(s), x)

(* Vec<DateTime<Utc>>::sort *)
RECURSIVE Sort(_)
Sort(s) == IF s = <<>> THEN <<>> ELSE InsertSorted(Sort(Tail(s)), Head(s))

Range(s) == {s[i] : i \in DOMAIN s}

(* number of entries of s equal to x *)
Count(s, x) == Cardinality({i \in DOMAIN s : s[i] = x})

(* str::trim on a string of characters drawn from {" ", "x"} *)
RECURSIVE TrimStart(_)
TrimStart(s) == IF s # <<>> /\ Head(s) = " " THEN TrimStart(Tail(s)) ELSE s
RECURSIVE TrimEnd(_)
TrimEnd(s) ==
    IF s # <<>> /\ s[Len(s)] = " " THEN TrimEnd(SubSeq(s, 1, Len(s) - 1)) ELSE s
Trim(s) == TrimEnd(TrimStart(s))

(* ------------------------------------------------------------------ *)
(* State                                                               *)
(* ------------------------------------------------------------------ *)
VARIABLES
    now,                  \* Utc::now(), the wall clock in ms
    turnstile_secret_key, \* AppState.turnstile_secret_key.is_some()
    rate_limits,          \* AppState.rate_limits: client -> sorted timestamps
    rate_disk,            \* the durable rate-limit document (rate_limits.json)
    anti_bot_challenges,  \* AppState.anti_bot_challenges: id -> challenge
    issued,               \* every challenge ever generated: id -> challenge
    download_semaphore,   \* permits available in AppState.download_semaphore
    max_concurrent_downloads, \* the configured size of the permit pool
    history,              \* AppState.history, newest first
    history_disk,         \* the durable history document (history.json)
    transfer_dir,         \* the job directories that exist under transfer_dir
    cleanup_tasks,        \* the delayed tasks schedule_cleanup_download_job spawned
    resolution,           \* resolve_downloaded_file: what it is given, what it returns
    req,                  \* the handlers in flight: slot -> locals and position
    admitted,             \* client -> timestamps of the attempts admit let pass
    attempts,             \* requests taken up so far
    passed                \* id -> the validations that succeeded with it

vars == <<now, turnstile_secret_key, rate_limits, rate_disk, anti_bot_challenges,
          issued, download_semaphore, max_concurrent_downloads, history,
          history_disk, transfer_dir, cleanup_tasks, resolution, req, admitted,
          attempts, passed>>

(* the state by component *)
config == <<turnstile_secret_key, max_concurrent_downloads>>
limiter == <<rate_limits, rate_disk, admitted, attempts>>
antibot == <<anti_bot_challenges, issued, passed>>
workspace == <<transfer_dir, cleanup_tasks, resolution>>
jobs == <<download_semaphore, history, history_disk, workspace>>

EmptyRateLimits == [c \in Clients |-> <<>>]
EmptyChallenges == [i \in {} |-> NONE]

(* resolve_downloaded_file has not been called *)
NoResolution ==
    [pc |-> "idle", dir_ok |-> TRUE, printed |-> None, readable |-> TRUE,
     listing |-> <<>>, result |-> None]

(* the locals of a handler that is not running *)
IdleRequest ==
    [pc |-> "idle", client |-> NONE, now |-> 0, retry |-> None,
     snapshot |-> EmptyRateLimits, status |-> None, payload |-> None,
     cid |-> None, nonce |-> 0, checks |-> <<>>, outcome |-> NONE,
     entry |-> None, hsnap |-> <<>>, base |-> <<>>, filename |-> None,
     content_length |-> None, listed |-> <<>>, body |-> NONE]

(* the state when run starts to serve: `ledger` is what load_history made *)
(* of the stored history, `stored` the document it read                   *)
InitLoaded(secret, permits, doc, ledger, stored) ==
    /\ now = 0
    /\ turnstile_secret_key = secret
    /\ rate_limits = doc
    /\ rate_disk = doc
    /\ anti_bot_challenges = EmptyChallenges
    /\ issued = EmptyChallenges
    /\ max_concurrent_downloads = permits
    /\ download_semaphore = permits
    /\ history = ledger
    /\ history_disk = stored
    /\ transfer_dir = {}
    /\ cleanup_tasks = {}
    /\ resolution = NoResolution
    /\ req = [r \in Slots |-> IdleRequest]
    /\ admitted = doc
    /\ attempts = 0
    /\ passed = [i \in Ids |-> <<>>]

(* the state when run starts to serve and there is no history document: *)
(* load_history, line 1076                                              *)
InitWith(secret, permits, doc) == InitLoaded(secret, permits, doc, <<>>, <<>>)

(* a new /api/download handler runs in the first slot that is free: which *)
(* of the free slots it takes makes no difference to any handler          *)
FreeSlot(r) ==
    /\ r \in DownloadSlots
    /\ req[r].pc = "idle"
    /\ \A q \in 1..(r - 1) : req[q].pc # "idle"

(* the clock moves on to a later instant of the set observed *)
Tick(instants) ==
    /\ \E t \in instants : t > now /\ now' = t
    /\ UNCHANGED <<config, limiter, antibot, jobs, req>>

(* ------------------------------------------------------------------ *)
(* RateLimiter: register_download_attempt                              *)
(* ------------------------------------------------------------------ *)
WindowStart(at) == at - Hours(DOWNLOAD_WINDOW_HOURS)

(* entries.sort(); entries.retain(|timestamp| *timestamp > window_start) *)
PruneWindow(entries, at) ==
    SelectSeq(Sort(entries), LAMBDA t : t > WindowStart(at))

(* a limit test that lets the count reach one above the limit *)
LimitExceeded(entries) == Len(entries) > DOWNLOAD_LIMIT_PER_DAY

(* the limit test of the critical section *)
LimitReached(entries) == Len(entries) >= DOWNLOAD_LIMIT_PER_DAY

(* the whole seconds until the oldest entry leaves the window, unfloored *)
SecondsToReset(entries, at) ==
    NumSeconds((IF entries # <<>>
                THEN Head(entries) + Hours(DOWNLOAD_WINDOW_HOURS)
                ELSE at + Hours(DOWNLOAD_WINDOW_HOURS)) - at)

(* (reset_at - now).num_seconds().max(1) *)
RetryAfterSeconds(entries, at) ==
    LET reset_at == IF entries # <<>>
                    THEN Head(entries) + Hours(DOWNLOAD_WINDOW_HOURS)
                    ELSE at + Hours(DOWNLOAD_WINDOW_HOURS)
    IN Max(NumSeconds(reset_at - at), 1)

(* an admission that leaves no trace in the table *)
SkipAttempt(entries, at) == entries

(* entries.push(now); entries.sort() *)
PushAttempt(entries, at) == Sort(Append(entries, at))

(* lines 877-878: the clock is read before the lock is requested;  *)
(* base notes the attempts the client has in the window at that time *)
EnterRegister(rq, c) ==
    [rq EXCEPT !.pc = "rl_lock", !.client = c, !.now = now,
               !.base = PruneWindow(rate_limits[c], now)]

(* a request that passed the anti-bot check calls register_download_attempt *)
RegisterBegin(r, c) ==
    /\ FreeSlot(r)
    /\ attempts < MaxAttempts
    /\ attempts' = attempts + 1
    /\ req' = [req EXCEPT ![r] = EnterRegister(IdleRequest, c)]
    /\ UNCHANGED <<now, config, rate_limits, rate_disk, admitted, antibot, jobs>>

(* lines 880-900: prune, count, append and clone under the rate-limit lock *)
RegisterLocked(r) ==
    /\ req[r].pc = "rl_lock"
    /\ LET c == req[r].client
           entries == PruneWindow(rate_limits[c], req[r].now)
           full == LimitReached(entries)
           after == IF full THEN entries ELSE PushAttempt(entries, req[r].now)
           table == [rate_limits EXCEPT ![c] = after]
       IN /\ rate_limits' = table
          /\ req' = [req EXCEPT ![r].pc = "rl_persist",
                                ![r].snapshot = table,
                                ![r].retry = IF full
                                             THEN Some(RetryAfterSeconds(entries, req[r].now))
                                             ELSE None]
    /\ UNCHANGED <<now, config, rate_disk, admitted, attempts, antibot, jobs>>

(* lines 902-908: persist the snapshot, then reject or let the caller go on *)
RegisterPersist(r, written) ==
    /\ req[r].pc = "rl_persist"
    /\ LET c == req[r].client
       IN IF ~written
          THEN /\ req' = [req EXCEPT ![r].pc = "done",
                                     ![r].status = Some(INTERNAL_SERVER_ERROR),
                                     ![r].retry = None,
                                     ![r].snapshot = EmptyRateLimits]
               /\ UNCHANGED <<rate_disk, admitted>>
          ELSE /\ rate_disk' = req[r].snapshot
               /\ IF req[r].retry # None
                  THEN /\ req' = [req EXCEPT ![r].pc = "done",
                                             ![r].status = Some(TOO_MANY_REQUESTS),
                                             ![r].snapshot = EmptyRateLimits]
                       /\ UNCHANGED admitted
                  ELSE /\ req' = [req EXCEPT ![r].pc = "acquire",
                                             ![r].snapshot = EmptyRateLimits]
                       /\ admitted' = [admitted EXCEPT
                                         ![c] = Sort(Append(@, req[r].now))]
    /\ UNCHANGED <<now, config, rate_limits, attempts, antibot, jobs>>

(* the instants at which the rate limiter is observed: the start, half *)
(* a second before a full window has passed, and the end of the window *)
RLInstants ==
    {0, Hours(DOWNLOAD_WINDOW_HOURS) - MsPerSecond \div 2,
     Hours(DOWNLOAD_WINDOW_HOURS)}

(* load_rate_limits: sort and prune every list of the stored document *)
(* (a client whose list comes out empty is dropped, which or_default   *)
(* makes the same as an empty list)                                    *)
LoadRateLimits(doc, at) == [c \in Clients |-> PruneWindow(doc[c], at)]

(* the documents a previous run may have left: client 1.2.3.4 is at, *)
(* or a few attempts short of, its limit, all made as that run ended *)
StoredDocuments ==
    {[c \in Clients |-> IF c = "1.2.3.4" THEN [i \in 1..k |-> 0] ELSE <<>>] :
        k \in (DOWNLOAD_LIMIT_PER_DAY - MaxStoredShort)..DOWNLOAD_LIMIT_PER_DAY}

RLInit ==
    \E doc \in StoredDocuments :
        InitWith(FALSE, DEFAULT_MAX_CONCURRENT_DOWNLOADS, LoadRateLimits(doc, 0))

RLBegin == \E r \in Slots, c \in Clients : RegisterBegin(r, c)
RLLocked == \E r \in Slots : RegisterLocked(r)
RLPersist == \E r \in Slots, written \in BOOLEAN : RegisterPersist(r, written)
RLTick == Tick(RLInstants)

RLNext == RLBegin \/ RLLocked \/ RLPersist \/ RLTick

SpecRL == RLInit /\ [][RLNext]_vars

(* SpecRetry observes the rate limiter around the end of a window at *)
(* instants one second apart that are not whole seconds away from it *)
RetryInstants ==
    {0, Hours(DOWNLOAD_WINDOW_HOURS) - (3 * MsPerSecond) \div 2,
     Hours(DOWNLOAD_WINDOW_HOURS) - MsPerSecond \div 2,
     Hours(DOWNLOAD_WINDOW_HOURS)}

RetryNext == RLBegin \/ RLLocked \/ RLPersist \/ Tick(RetryInstants)

SpecRetry == RLInit /\ [][RetryNext]_vars

(* ------------------------------------------------------------------ *)
(* AntiBotEngine                                                       *)
(* ------------------------------------------------------------------ *)
(* non_empty: the trimmed string, or None when nothing is left *)
NonEmpty(str) == IF Trim(str) = <<>> THEN None ELSE Some(Trim(str))

(* the strings a text field of the payload may carry: blank, or not *)
Strings == {<<" ">>, <<"x">>}
OptionOf(S) == {None} \cup {Some(x) : x \in S}

(* the anti-bot fields of DownloadRequest.  The delegated strategy reads *)
(* only the token, the local one never reads it.                         *)
Payloads(secret) ==
    IF secret
    THEN [honey : OptionOf(Strings), token : OptionOf(Strings),
          elapsed : {None}, cid : {None}, sol : {None}]
    ELSE [honey : OptionOf(Strings), token : {None},
          elapsed : OptionOf({ANTIBOT_MIN_ELAPSED_MS - 1, ANTIBOT_MIN_ELAPSED_MS}),
          cid : OptionOf(Ids), sol : OptionOf(Solutions)]

(* a honeypot test that nothing trips *)
HoneyIgnored(p) == FALSE

(* antibot_honey.as_deref().map(str::trim).is_some_and(|v| !v.is_empty()) *)
HoneyFilled(p) == p.honey # None /\ Trim(p.honey[1]) # <<>>

(* an elapsed-time test that lets a request without the field through *)
ElapsedShortIfPresent(p) ==
    p.elapsed # None /\ p.elapsed[1] < ANTIBOT_MIN_ELAPSED_MS

(* antibot_elapsed_ms.unwrap_or_default() < ANTIBOT_MIN_ELAPSED_MS *)
ElapsedTooShort(p) ==
    (IF p.elapsed = None THEN 0 ELSE p.elapsed[1]) < ANTIBOT_MIN_ELAPSED_MS

(* the leading hex digits of the SHA-256 digest of "id:nonce:solution". *)
(* The hash is the sha2 crate's; it is stood for by a fixed function of *)
(* the three inputs that gives every (id, nonce) a solution.            *)
DigestPrefix(cid, nonce, solution) ==
    [k \in 1..ANTIBOT_DIFFICULTY_HEX_PREFIX |->
        ((cid + nonce + solution) % 2) * ((cid + nonce + k) % 16)]

(* hex.starts_with("0".repeat(ANTIBOT_DIFFICULTY_HEX_PREFIX)) *)
IsPowSolutionValid(cid, nonce, solution) ==
    \A k \in 1..ANTIBOT_DIFFICULTY_HEX_PREFIX :
        DigestPrefix(cid, nonce, solution)[k] = 0

(* prune_antibot_challenges *)
PruneAntibotChallenges(challenges, at) ==
    LET live == {i \in DOMAIN challenges :
                    NumSeconds(at - challenges[i].created_at)
                        <= ANTIBOT_CHALLENGE_TTL_SECONDS}
    IN [i \in live |-> challenges[i]]

(* trim_antibot_challenges: the tables it may leave.  Over the ceiling it  *)
(* removes `overflow` entries, oldest first; among entries created at the  *)
(* same instant the map's iteration order decides.                         *)
(* The sorted list is cut at its `overflow`-th entry: the entries created *)
(* before that one go, and of those created at its instant as many as are *)
(* still to go.                                                           *)
TrimAntibotChallenges(challenges) ==
    IF Cardinality(DOMAIN challenges) <= MAX_ANTIBOT_CHALLENGES
    THEN {challenges}
    ELSE LET overflow == Cardinality(DOMAIN challenges) - MAX_ANTIBOT_CHALLENGES
             Before(t) == {i \in DOMAIN challenges : challenges[i].created_at < t}
             At(t) == {i \in DOMAIN challenges : challenges[i].created_at = t}
             cut == CHOOSE t \in {challenges[i].created_at : i \in DOMAIN challenges} :
                        /\ Cardinality(Before(t)) < overflow
                        /\ Cardinality(Before(t)) + Cardinality(At(t)) >= overflow
             rest == overflow - Cardinality(Before(cut))
         IN {[i \in DOMAIN challenges \ (Before(cut) \cup gone) |-> challenges[i]] :
                gone \in {g \in SUBSET At(cut) : Cardinality(g) = rest}}

(* challenges.insert(challenge_id, challenge) *)
InsertChallenge(challenges, cid, challenge) ==
    [i \in DOMAIN challenges \cup {cid} |->
        IF i = cid THEN challenge ELSE challenges[i]]

(* a lookup that leaves the challenge in the table *)
KeepChallenge(challenges, cid) == challenges

(* challenges.remove(challenge_id): the table it leaves *)
RemoveChallenge(challenges, cid) ==
    [i \in DOMAIN challenges \ {cid} |-> challenges[i]]

(* an identity comparison that lets every caller through *)
BoundToNone(challenge, client) == FALSE

(* challenge.ip != client_ip *)
BoundToOther(challenge, client) == challenge.ip # client

(* Uuid::new_v4(): an id no challenge of this run bears (the least one, *)
(* ids being interchangeable)                                           *)
FreshIds ==
    LET free == Ids \ DOMAIN issued
    IN IF free = {} THEN {} ELSE {CHOOSE i \in free : \A j \in free : i <= j}

(* Uuid::new_v4() for the nonce: a value no other challenge carries *)
FreshNonce(cid) == MaxChallenges + cid

(* create_antibot_challenge, lines 402-405: identity, clock, id and nonce *)
CreateChallengeBegin(r, c) ==
    /\ req[r].pc = "idle"
    /\ \E cid \in FreshIds :
          /\ r = ChallengeSlot(cid)
          /\ req' = [req EXCEPT ![r] = [IdleRequest EXCEPT
                        !.pc = "ch_lock", !.client = c, !.now = now,
                        !.cid = Some(cid), !.nonce = FreshNonce(cid)]]
          /\ issued' = InsertChallenge(issued, cid,
                          [nonce |-> FreshNonce(cid), created_at |-> now,
                           ip |-> c])
    /\ UNCHANGED <<now, config, limiter, anti_bot_challenges, passed, jobs>>

(* create_antibot_challenge, lines 407-426: prune, insert, trim; the *)
(* handler returns the challenge                                     *)
CreateChallengeLocked(r) ==
    /\ req[r].pc = "ch_lock"
    /\ \E table \in TrimAntibotChallenges(
                       InsertChallenge(
                           PruneAntibotChallenges(anti_bot_challenges, req[r].now),
                           req[r].cid[1],
                           [nonce |-> req[r].nonce, created_at |-> req[r].now,
                            ip |-> req[r].client])) :
          anti_bot_challenges' = table
    /\ req' = [req EXCEPT ![r] = IdleRequest]
    /\ UNCHANGED <<now, config, limiter, issued, passed, jobs>>

(* the handler returns Err(ApiError::bot_check_failed(..)) after `checks` *)
BotCheckFailed(rq, checks) ==
    [rq EXCEPT !.pc = "done", !.status = Some(FORBIDDEN), !.checks = checks]

(* a verified request that goes past register_download_attempt *)
SkipRegister(rq, checks) == [rq EXCEPT !.pc = "acquire", !.checks = checks]

(* verify_request_protection returns Ok(()): the handler goes on to *)
(* register_download_attempt                                         *)
Verified(rq, checks) == [rq EXCEPT !.pc = "verified", !.checks = checks]

(* verify_request_protection and, for the local strategy, validate_antibot *)
(* up to its lock: the checks that read the payload alone                  *)
VerifyRequestProtection(rq, p, secret) ==
    IF HoneyFilled(p) THEN BotCheckFailed(rq, <<"honeypot">>)
    ELSE IF secret
    THEN IF p.token = None \/ NonEmpty(p.token[1]) = None
         THEN BotCheckFailed(rq, <<"honeypot", "token">>)
         ELSE [rq EXCEPT !.pc = "turnstile", !.checks = <<"honeypot", "token">>]
    ELSE IF HoneyFilled(p)
    THEN BotCheckFailed(rq, <<"honeypot", "honeypot">>)
    ELSE IF ElapsedTooShort(p)
    THEN BotCheckFailed(rq, <<"honeypot", "honeypot", "elapsed">>)
    ELSE IF p.cid = None
    THEN BotCheckFailed(rq, <<"honeypot", "honeypot", "elapsed", "challenge_id">>)
    ELSE IF p.sol = None
    THEN BotCheckFailed(rq, <<"honeypot", "honeypot", "elapsed", "challenge_id",
                              "solution">>)
    ELSE [rq EXCEPT !.pc = "ab_lock",
                    !.checks = <<"honeypot", "honeypot", "elapsed",
                                 "challenge_id", "solution">>]

(* start_download, lines 535-536: a request with a supported URL arrives *)
ReceiveDownload(r, c, p) ==
    /\ FreeSlot(r)
    /\ attempts < MaxAttempts
    /\ attempts' = attempts + 1
    /\ req' = [req EXCEPT ![r] =
                 VerifyRequestProtection(
                     [IdleRequest EXCEPT !.client = c, !.payload = Some(p)],
                     p, turnstile_secret_key)]
    /\ UNCHANGED <<now, config, rate_limits, rate_disk, admitted,
                   anti_bot_challenges, issued, passed, jobs>>

(* what the verification service may make of a call *)
TurnstileOutcomes ==
    {"transport_error", "timeout", "http_error", "bad_body", "success_false",
     "success_true"}

(* a verification that lets the request through when the service cannot *)
(* be reached                                                           *)
FailOpen(outcome) == outcome \in {"success_true", "transport_error", "timeout"}

(* verify_turnstile_token returns Ok(()) at line 996 only: send() went    *)
(* through, the status was a success, the body parsed and success is true *)
TurnstileAccepts(outcome) == outcome = "success_true"

(* verify_turnstile_token, lines 953-996 *)
VerifyTurnstileToken(r, outcome) ==
    /\ req[r].pc = "turnstile"
    /\ req' = [req EXCEPT ![r] =
                 IF TurnstileAccepts(outcome)
                 THEN Verified(@, Append(req[r].checks, outcome))
                 ELSE BotCheckFailed(@, Append(req[r].checks, outcome))]
    /\ UNCHANGED <<now, config, limiter, antibot, jobs>>

(* start_download, lines 536-537: verify_request_protection returned *)
(* Ok(()), and the handler calls register_download_attempt           *)
ProceedToRegister(r) ==
    /\ req[r].pc = "verified"
    /\ req' = [req EXCEPT ![r] = EnterRegister(@, req[r].client)]
    /\ UNCHANGED <<now, config, limiter, antibot, jobs>>

(* validate_antibot, lines 1031-1052: prune and take the challenge under *)
(* the lock, then compare the bound identity and recompute the hash      *)
ValidateAntibotLocked(r) ==
    /\ req[r].pc = "ab_lock"
    /\ LET cid == req[r].payload[1].cid[1]
           solution == req[r].payload[1].sol[1]
           live == PruneAntibotChallenges(anti_bot_challenges, now)
           found == cid \in DOMAIN live
           seen == Append(req[r].checks, "lookup")
       IN /\ anti_bot_challenges' = RemoveChallenge(live, cid)
          /\ IF ~found
             THEN /\ req' = [req EXCEPT ![r] = BotCheckFailed(@, seen)]
                  /\ UNCHANGED passed
             ELSE IF BoundToOther(live[cid], req[r].client)
             THEN /\ req' = [req EXCEPT ![r] = BotCheckFailed(@, Append(seen, "ip"))]
                  /\ UNCHANGED passed
             ELSE IF ~IsPowSolutionValid(cid, live[cid].nonce, solution)
             THEN /\ req' = [req EXCEPT ![r] =
                               BotCheckFailed(@, seen \o <<"ip", "pow">>)]
                  /\ UNCHANGED passed
             ELSE /\ req' = [req EXCEPT ![r] =
                               Verified(@, seen \o <<"ip", "pow">>)]
                  /\ passed' = [passed EXCEPT ![cid] =
                                  Append(@, [client |-> req[r].client, at |-> now])]
    /\ UNCHANGED <<now, config, limiter, issued, jobs>>

(* the instants at which the challenge table is observed: the start, and *)
(* the two ends of the second that follows a challenge's TTL             *)
ABInstants ==
    {0, Seconds(ANTIBOT_CHALLENGE_TTL_SECONDS + 1) - 1,
     Seconds(ANTIBOT_CHALLENGE_TTL_SECONDS + 1)}

(* the requests a browser that ran the local check sends: every field *)
(* present, the solution right or wrong                               *)
Completed ==
    {p \in Payloads(FALSE) :
        /\ p.honey = None
        /\ ~ElapsedTooShort(p)
        /\ p.cid # None
        /\ p.sol # None}

ABInit == InitWith(FALSE, DEFAULT_MAX_CONCURRENT_DOWNLOADS, EmptyRateLimits)

ABCreate == \E r \in Slots, c \in Clients : CreateChallengeBegin(r, c)
ABCreateLocked == \E r \in Slots : CreateChallengeLocked(r)
ABReceive == \E r \in Slots, c \in Clients, p \in Completed : ReceiveDownload(r, c, p)
ABValidate == \E r \in Slots : ValidateAntibotLocked(r)
ABTick == Tick(ABInstants)

ABNext ==
    ABCreate \/ ABCreateLocked \/ ABReceive \/ ABValidate \/ ABTick

SpecAB == ABInit /\ [][ABNext]_vars

(* SpecFrame: the requests of one client under the local strategy, each *)
(* right in every field read before the lookup or wrong in one of them, *)
(* while the client is issued challenges                                *)
FramePayloads ==
    {p \in Payloads(FALSE) :
        /\ p.honey # Some(<<" ">>)
        /\ Cardinality({f \in {"honey", "elapsed", "cid", "sol"} :
                           \/ f = "honey" /\ p.honey # None
                           \/ f = "elapsed" /\ p.elapsed # Some(ANTIBOT_MIN_ELAPSED_MS)
                           \/ f = "cid" /\ p.cid = None
                           \/ f = "sol" /\ p.sol = None}) <= 1}

FrameNext ==
    \/ \E r \in Slots : CreateChallengeBegin(r, "1.2.3.4")
    \/ ABCreateLocked
    \/ \E r \in Slots, p \in FramePayloads : ReceiveDownload(r, "1.2.3.4", p)
    \/ ABValidate

SpecFrame == ABInit /\ [][FrameNext]_vars

(* SpecCeil issues challenges into a table that other clients have    *)
(* filled before: n challenges with the ids -1 .. -n, made in the two *)
(* seconds before the start or at the start.  The two oldest were     *)
(* made a second apart, or at the same instant.                       *)
Preloaded(n, tied) ==
    [i \in {-k : k \in 1..n} |->
        [nonce |-> i,
         created_at |-> IF i = -1 /\ ~tied THEN -Seconds(2)
                        ELSE IF i \in {-1, -2} THEN -Seconds(1)
                        ELSE 0,
         ip |-> "5.6.7.8"]]

CeilSizes == {2, MAX_ANTIBOT_CHALLENGES - 1, MAX_ANTIBOT_CHALLENGES}

CeilInit ==
    /\ now = 0
    /\ turnstile_secret_key = FALSE
    /\ rate_limits = EmptyRateLimits
    /\ rate_disk = EmptyRateLimits
    /\ \E n \in CeilSizes, tied \in BOOLEAN :
          anti_bot_challenges = Preloaded(n, tied)
    /\ issued = EmptyChallenges
    /\ max_concurrent_downloads = DEFAULT_MAX_CONCURRENT_DOWNLOADS
    /\ download_semaphore = DEFAULT_MAX_CONCURRENT_DOWNLOADS
    /\ history = <<>>
    /\ history_disk = <<>>
    /\ transfer_dir = {}
    /\ cleanup_tasks = {}
    /\ resolution = NoResolution
    /\ req = [r \in Slots |-> IdleRequest]
    /\ admitted = EmptyRateLimits
    /\ attempts = 0
    /\ passed = [i \in Ids |-> <<>>]

CeilNext == ABCreate \/ ABCreateLocked \/ ABTick

SpecCeil == CeilInit /\ [][CeilNext]_vars

(* The checks that read the payload alone run between the handler's entry *)
(* and its first await.  SpecVP follows one download request at a time,   *)
(* with any payload and under either strategy, while challenges are made. *)
VPInit ==
    \E secret \in BOOLEAN :
        InitWith(secret, DEFAULT_MAX_CONCURRENT_DOWNLOADS, EmptyRateLimits)

VPCreate == \E r \in Slots, c \in Clients : CreateChallengeBegin(r, c)
VPCreateLocked == \E r \in Slots : CreateChallengeLocked(r)
VPReceive ==
    /\ \A q \in Slots : req[q].payload = None
    /\ \E r \in Slots, c \in Clients, p \in Payloads(turnstile_secret_key) :
          ReceiveDownload(r, c, p)
VPTurnstile == \E r \in Slots, o \in TurnstileOutcomes : VerifyTurnstileToken(r, o)
VPValidate == \E r \in Slots : ValidateAntibotLocked(r)
VPProceed == \E r \in Slots : ProceedToRegister(r)
VPLocked == \E r \in Slots : RegisterLocked(r)
VPPersist == \E r \in Slots, written \in BOOLEAN : RegisterPersist(r, written)

VPNext ==
    \/ VPCreate \/ VPCreateLocked \/ VPReceive \/ VPTurnstile \/ VPValidate
    \/ VPProceed \/ VPLocked \/ VPPersist

SpecVP == VPInit /\ [][VPNext]_vars

(* ------------------------------------------------------------------ *)
(* JobSlotManager and HistoryLedger: start_download past admission     *)
(* ------------------------------------------------------------------ *)
(* the ways the preparation block of start_download may end *)
PreparationOutcomes ==
    {"success", "timeout", "spawn_error", "exit_failure", "unresolved",
     "metadata_error", "oversized", "open_error"}

(* the ways the job may end before its history entry is made *)
JobOutcomes == {"mkdir_error"} \cup PreparationOutcomes

(* the preparations that read the metadata of the resolved file *)
ResolvedOutcomes == {"oversized", "open_error", "success"}

(* the lengths metadata.len() may report: the limit, and one byte more *)
ArtifactLengths == {MAX_DOWNLOAD_BYTES, MAX_DOWNLOAD_BYTES + 1}

(* start_download, line 624 *)
Oversized(len) == len > MAX_DOWNLOAD_BYTES

(* every failed preparation taken for a failure of the server *)
AlwaysInternal(outcome) == INTERNAL_SERVER_ERROR

(* the status of the ApiError a failed preparation carries *)
PreparationStatus(outcome) ==
    IF outcome \in {"timeout", "exit_failure", "oversized"}
    THEN BAD_REQUEST
    ELSE INTERNAL_SERVER_ERROR

(* trim_history_limits, lines 1094-1103: entries.retain over the entries *)
(* lo..hi with the counters so far; what is kept, and the counters after *)
(* (the list is walked by halves, front half first)                      *)
RECURSIVE RetainCounting(_, _, _, _)
RetainCounting(entries, lo, hi, counters) ==
    IF lo > hi THEN [kept |-> <<>>, counters |-> counters]
    ELSE IF lo = hi
    THEN LET ip == entries[lo].requester_ip
             counter == IF ip \in DOMAIN counters THEN counters[ip] ELSE 0
         IN IF counter >= HISTORY_PER_IP_LIMIT
            THEN [kept |-> <<>>, counters |-> counters]
            ELSE [kept |-> <<entries[lo]>>,
                  counters |-> [x \in DOMAIN counters \cup {ip} |->
                                  IF x = ip THEN counter + 1 ELSE counters[x]]]
    ELSE LET mid == (lo + hi) \div 2
             front == RetainCounting(entries, lo, mid, counters)
             back == RetainCounting(entries, mid + 1, hi, front.counters)
         IN [kept |-> front.kept \o back.kept, counters |-> back.counters]

(* a truncation that keeps the tail of the list *)
TruncateFront(entries, len) ==
    IF Len(entries) > len
    THEN SubSeq(entries, Len(entries) - len + 1, Len(entries))
    ELSE entries

(* Vec::truncate *)
Truncate(entries, len) ==
    IF Len(entries) > len THEN SubSeq(entries, 1, len) ELSE entries

(* trim_history_limits: the first HISTORY_PER_IP_LIMIT entries of each *)
(* requester are kept, then the list is cut at HISTORY_MAX_ENTRIES     *)
TrimHistoryLimits(entries) ==
    LET kept == RetainCounting(entries, 1, Len(entries),
                               [x \in {} |-> 0]).kept
    IN IF Len(kept) > HISTORY_MAX_ENTRIES
       THEN Truncate(kept, HISTORY_MAX_ENTRIES)
       ELSE kept

(* serde_json::to_string_pretty of the history: requester_ip is marked *)
(* skip_serializing (line 86) and is left out of every entry           *)
SerializeHistory(entries) ==
    [k \in DOMAIN entries |->
        [id |-> entries[k].id, status |-> entries[k].status,
         created_at |-> entries[k].created_at,
         saved_path |-> entries[k].saved_path]]

(* serde_json::from_str of the history: an entry without requester_ip *)
(* gets the default, the empty string (line 86)                       *)
DeserializeHistory(doc) ==
    [k \in DOMAIN doc |->
        [id |-> doc[k].id,
         requester_ip |-> IF "requester_ip" \in DOMAIN doc[k]
                          THEN doc[k].requester_ip ELSE "",
         status |-> doc[k].status,
         created_at |-> doc[k].created_at,
         saved_path |-> doc[k].saved_path]]

(* load_history, lines 1068-1074 *)
LoadHistory(doc) == TrimHistoryLimits(DeserializeHistory(doc))

(* a listing that does not look at the requester *)
TakeAny(entries, c) ==
    SubSeq(entries, 1, IF Len(entries) < HISTORY_PER_IP_LIMIT
                       THEN Len(entries) ELSE HISTORY_PER_IP_LIMIT)

(* get_history, lines 368-376: filter, take, collect *)
FilterTake(entries, c) ==
    LET own == SelectSeq(entries, LAMBDA e : e.requester_ip = c)
    IN SubSeq(own, 1, IF Len(own) < HISTORY_PER_IP_LIMIT
                      THEN Len(own) ELSE HISTORY_PER_IP_LIMIT)

(* a clear that empties the list *)
RetainNone(entries, c) == <<>>

(* clear_history, line 389: history.retain *)
RetainOthers(entries, c) == SelectSeq(entries, LAMBDA e : e.requester_ip # c)

(* HistoryEntry, as far as the ledger and its readers look at it *)
HistoryEntry(id, client, status, path) ==
    [id |-> id, requester_ip |-> client, status |-> status,
     created_at |-> now, saved_path |-> path]

(* Characters of a file name, one of each kind the code tells apart: an  *)
(* ASCII letter, the dot and the blank sanitize_ascii_filename keeps, a  *)
(* visible ASCII character it replaces, a control character and a        *)
(* character outside ASCII                                               *)
Chars == {"a", ".", " ", "#", "LF", "U+00E9"}

(* char::is_ascii_alphanumeric, on the characters that occur *)
IsAsciiAlphanumeric(ch) ==
    ch \in {"a", "b", "d", "i", "l", "n", "o", "w",
            "A", "C", "E", "0", "2", "3", "9"}

(* "download.bin" *)
DownloadBin == <<"d", "o", "w", "n", "l", "o", "a", "d", ".", "b", "i", "n">>

(* the names the resolved file may have *)
Filenames == {<<"a">>, <<" ">>, <<"LF", ".", "a">>, <<"U+00E9", "#">>}

(* the name of a file yt-dlp wrote under an ASCII title *)
PlainNames == {<<"a">>}

(* sanitize_ascii_filename *)
SanitizeAsciiFilename(value) ==
    LET sanitized == [k \in DOMAIN value |->
                        IF IsAsciiAlphanumeric(value[k])
                           \/ value[k] \in {".", "-", "_", " ", "(", ")"}
                        THEN value[k] ELSE "_"]
        compact == Trim(sanitized)
    IN IF compact = <<>> THEN DownloadBin ELSE compact

(* urlencoding::encode: the bytes of every character that is not      *)
(* unreserved are written as % and two hexadecimal digits             *)
RECURSIVE UrlEncode(_)
UrlEncode(value) ==
    IF value = <<>> THEN <<>>
    ELSE LET ch == Head(value)
             encoded ==
                 IF IsAsciiAlphanumeric(ch) \/ ch \in {"-", "_", ".", "~"}
                 THEN <<ch>>
                 ELSE IF ch = " " THEN <<"%", "2", "0">>
                 ELSE IF ch = "#" THEN <<"%", "2", "3">>
                 ELSE IF ch = "LF" THEN <<"%", "0", "A">>
                 ELSE <<"%", "C", "3", "%", "A", "9">>
         IN encoded \o UrlEncode(Tail(value))

(* build_content_disposition; its literal parts are written as one *)
(* element each                                                    *)
BuildContentDisposition(name) ==
    <<"attachment; filename=\"">> \o SanitizeAsciiFilename(name)
        \o <<"\"; filename*=UTF-8''">> \o UrlEncode(name)

(* HeaderValue::from_str: the bytes must be visible ASCII or a tab *)
HeaderValueFromStr(str) ==
    IF \A k \in DOMAIN str : str[k] \notin {"LF", "U+00E9"}
    THEN Some(str) ELSE None

(* start_download, lines 670-693: Content-Length is made of decimal    *)
(* digits; the two other values made with from_str come from the name  *)
HeadersBuilt(name) ==
    /\ HeaderValueFromStr(<<"0">>) # None
    /\ HeaderValueFromStr(BuildContentDisposition(name)) # None
    /\ HeaderValueFromStr(SanitizeAsciiFilename(name)) # None

(* the job directories under transfer_dir: which job's, and the time of *)
(* the last change in it                                                *)
CreateDirAll(dirs, job, at) == dirs \cup {[job |-> job, modified |-> at]}

(* run_yt_dlp, lines 1288-1295: the extractor has ended when output()  *)
(* completes; at the timeout the future is dropped and the child, which *)
(* is not killed on drop, goes on writing into the job's directory      *)
ExtractorStopped(outcome) == outcome # "timeout"

(* cleanup_download_job: remove_dir_all of the job's directory.  The    *)
(* removal of a directory nothing else writes into is taken to succeed; *)
(* an error is logged and nothing else is done about it.                *)
CleanupDownloadJob(dirs, job) == {d \in dirs : d.job # job}

(* cleanup_download_job while the extractor may still add files to the  *)
(* directory: remove_dir_all empties it and removes it, or finds it not *)
(* empty and fails, which is logged                                     *)
CleanupRacing(dirs, job, removed) ==
    IF removed THEN CleanupDownloadJob(dirs, job) ELSE dirs

(* a sweep that takes every entry, whatever its age *)
SweepAll(dirs, at, older_than_secs) == {}

(* cleanup_stale_download_jobs: what is younger than older_than_secs stays *)
CleanupStaleDownloadJobs(dirs, at, older_than_secs) ==
    {d \in dirs : Max(at - d.modified, 0) < Seconds(older_than_secs)}

(* a job whose cleanup is never scheduled *)
ForgetCleanup(tasks, job, at) == tasks

(* schedule_cleanup_download_job: a detached task that sleeps, then cleans *)
ScheduleCleanupDownloadJob(tasks, job, at) ==
    tasks \cup {[job |-> job, due |-> at + Seconds(DOWNLOAD_JOB_RETENTION_SECONDS)]}

(* ------------------------------------------------------------------ *)
(* JobSlotManager: resolve_downloaded_file                             *)
(* ------------------------------------------------------------------ *)
(* What the file system answers for a path: `meta` is the outcome of   *)
(* metadata (which follows links), `canon` where canonicalize leads    *)
(* for a regular file, `literal` where the path as written points      *)
PathsAt(place) ==
    [meta : {"not_found", "error", "dir"}, canon : {NONE}, literal : {place}]
        \cup [meta : {"file"}, canon : {"inside", "outside", "error"},
              literal : {place}]

(* the entries read_dir lists are names in the job directory *)
Entries == PathsAt("inside")

Candidates == PathsAt("inside") \cup PathsAt("outside")

(* what stands for a relative path taken as written, from the working *)
(* directory of the server: nothing, or a file that is not in the job *)
FromWorkingDir ==
    {c \in PathsAt("outside") :
        c.meta = "not_found" \/ (c.meta = "file" /\ c.canon = "outside")}

(* extract_printed_path: no line, an absolute path (job_dir.join gives *)
(* the same path again) or a relative one (job_dir.join puts it under  *)
(* the job directory, which it may leave again through ..)             *)
PrintedPaths ==
    {None}
        \cup {Some([given |-> c, joined |-> c]) : c \in Candidates}
        \cup {Some([given |-> g, joined |-> j]) :
                 g \in FromWorkingDir, j \in Candidates}

(* the listings of at most MaxListing entries *)
Listings == UNION {[1..n -> Entries] : n \in 0..MaxListing}

(* resolve_download_candidate: Ok(None), Err or Ok(Some(canonical)) *)
ResolveDownloadCandidate(c) ==
    IF c.meta = "not_found" THEN "none"
    ELSE IF c.meta = "error" THEN "error"
    ELSE IF c.meta # "file" THEN "none"
    ELSE IF c.canon = "error" THEN "error"
    ELSE IF c.canon # "inside" THEN "none"
    ELSE "valid"

(* the result of resolve_downloaded_file: the path found and where it *)
(* came from, or the error                                            *)
Resolved(from, c) == [ok |-> TRUE, from |-> from, file |-> c]
ResolveFailed(why) == [ok |-> FALSE, from |-> why, file |-> NONE]

(* lines 1346-1358: the entries of the job directory from the k-th on *)
RECURSIVE ScanJobDir(_, _)
ScanJobDir(listing, k) ==
    IF k > Len(listing)
    THEN ResolveFailed("not_found")
    ELSE LET found == ResolveDownloadCandidate(listing[k])
         IN IF found = "error" THEN ResolveFailed("candidate_error")
            ELSE IF found = "valid" THEN Resolved(k, listing[k])
            ELSE ScanJobDir(listing, k + 1)

(* lines 1346-1348: read_dir, then the scan *)
ReadJobDir(readable, listing) ==
    IF ~readable THEN ResolveFailed("read_dir_error")
    ELSE ScanJobDir(listing, 1)

(* resolve_downloaded_file *)
ResolveDownloadedFile(dir_ok, printed, readable, listing) ==
    IF ~dir_ok THEN ResolveFailed("job_dir_error")
    ELSE IF printed = None THEN ReadJobDir(readable, listing)
    ELSE LET given == ResolveDownloadCandidate(printed[1].given)
             joined == ResolveDownloadCandidate(printed[1].joined)
         IN IF given = "error" THEN ResolveFailed("candidate_error")
            ELSE IF given = "valid" THEN Resolved("printed", printed[1].given)
            ELSE IF joined = "error" THEN ResolveFailed("candidate_error")
            ELSE IF joined = "valid" THEN Resolved("joined", printed[1].joined)
            ELSE ReadJobDir(readable, listing)

(* start_download, lines 606-607: yt-dlp has ended with success; what  *)
(* it printed and what it left in the job directory are what they are  *)
ExtractorEnds(dir_ok, printed, readable, listing) ==
    /\ resolution.pc = "idle"
    /\ resolution' = [resolution EXCEPT
                         !.pc = "resolve", !.dir_ok = dir_ok,
                         !.printed = printed, !.readable = readable,
                         !.listing = listing]
    /\ UNCHANGED <<now, config, limiter, antibot, download_semaphore, history,
                   history_disk, transfer_dir, cleanup_tasks, req>>

(* start_download, line 608: resolve_downloaded_file(..).await; its Err *)
(* ends the preparation as unresolved                                   *)
ResolveArtifact ==
    /\ resolution.pc = "resolve"
    /\ resolution' = [resolution EXCEPT
                         !.pc = "resolved",
                         !.result = Some(ResolveDownloadedFile(
                                           resolution.dir_ok, resolution.printed,
                                           resolution.readable, resolution.listing))]
    /\ UNCHANGED <<now, config, limiter, antibot, download_semaphore, history,
                   history_disk, transfer_dir, cleanup_tasks, req>>

ResInit == InitWith(FALSE, 1, EmptyRateLimits)

ResNext ==
    \/ /\ resolution.pc = "idle"
       /\ \E dir_ok \in BOOLEAN, printed \in PrintedPaths,
             readable \in BOOLEAN, listing \in Listings :
             ExtractorEnds(dir_ok, printed, readable, listing)
    \/ ResolveArtifact

SpecRes == ResInit /\ [][ResNext]_vars

(* a semaphore that hands out permits it does not have *)
PermitAlways == TRUE

(* Semaphore::acquire_owned completes when a permit is available *)
PermitAvailable == download_semaphore > 0

(* a permit that is forgotten instead of dropped *)
ForgetPermit(permits) == permits

(* drop(_download_permit): the permit goes back to the semaphore *)
DropPermit(permits) == permits + 1

(* slot r holds a permit: it is past acquire_owned and has not returned *)
HoldsPermit(r) ==
    req[r].pc \in {"prepare", "extract", "hist_lock", "hist_persist", "discard"}

(* the handler of slot r returns with the status given, on the exit path *)
(* named; its locals, the permit among them, are dropped.  A response    *)
(* with the download carries a body that is streamed once the handler    *)
(* has returned it.                                                      *)
ReturnHolding(r, status, path) ==
    /\ req' = [req EXCEPT ![r] = [IdleRequest EXCEPT
                  !.pc = "done", !.status = Some(status), !.outcome = path,
                  !.body = IF status = STATUS_OK THEN "streaming" ELSE NONE]]
    /\ download_semaphore' = DropPermit(download_semaphore)

(* start_download, line 537: register_download_attempt has admitted the *)
(* request, which goes on to wait for a permit                          *)
AdmitDownload(r, c) ==
    /\ FreeSlot(r)
    /\ attempts < MaxAttempts
    /\ attempts' = attempts + 1
    /\ req' = [req EXCEPT ![r] = [IdleRequest EXCEPT !.pc = "acquire", !.client = c]]
    /\ UNCHANGED <<now, config, rate_limits, rate_disk, admitted, antibot, jobs>>

(* start_download, lines 538-543 *)
AcquirePermit(r) ==
    /\ req[r].pc = "acquire"
    /\ PermitAvailable
    /\ download_semaphore' = download_semaphore - 1
    /\ req' = [req EXCEPT ![r].pc = "prepare"]
    /\ UNCHANGED <<now, config, limiter, antibot, history, history_disk, workspace>>

(* start_download, lines 544-712: the stale sweep, create_dir_all, the   *)
(* preparation block and, when it fails, the removal of the job's        *)
(* directory.  These steps touch the job's own directory only, so they   *)
(* are taken as one; the history entry is made at their end.  The job    *)
(* and its entry are known by the slot of the handler.  A preparation    *)
(* that reads the length of the file ends as oversized exactly when the  *)
(* length is above the limit.  The removal may fail only against an     *)
(* extractor that is still running.                                     *)
PrepareDownload(r, outcome, name, len, removed) ==
    /\ req[r].pc = "prepare"
    /\ outcome \in ResolvedOutcomes => (outcome = "oversized") = Oversized(len)
    /\ ExtractorStopped(outcome) => removed
    /\ LET swept == CleanupStaleDownloadJobs(transfer_dir, now,
                                             STALE_DOWNLOAD_JOB_SECONDS)
           created == CreateDirAll(swept, r, now)
       IN IF outcome = "mkdir_error"
          THEN /\ ReturnHolding(r, INTERNAL_SERVER_ERROR, outcome)
               /\ transfer_dir' = swept
          ELSE IF outcome = "success"
          THEN /\ req' = [req EXCEPT
                     ![r].pc = "hist_lock",
                     ![r].outcome = outcome,
                     ![r].filename = Some(name),
                     ![r].content_length = Some(len),
                     ![r].entry = Some(HistoryEntry(r, req[r].client,
                                                    "success", Some(name)))]
               /\ transfer_dir' = created
               /\ UNCHANGED download_semaphore
          ELSE /\ req' = [req EXCEPT
                     ![r].pc = "hist_lock",
                     ![r].outcome = outcome,
                     ![r].content_length = IF outcome \in ResolvedOutcomes
                                           THEN Some(len) ELSE None,
                     ![r].entry = Some(HistoryEntry(r, req[r].client,
                                                    "failed", None))]
               /\ transfer_dir' = CleanupRacing(created, r, removed)
               /\ UNCHANGED download_semaphore
    /\ UNCHANGED <<now, config, limiter, antibot, history, history_disk,
                   cleanup_tasks, resolution>>

(* a snapshot that is not a copy of the list *)
CloneNothing(list) == <<>>

(* history.clone(): the snapshot a handler takes out of the critical *)
(* section                                                           *)
CloneHistory(list) == list

(* push_history, lines 1056-1061: insert at the head, trim, snapshot *)
PushHistoryLocked(r) ==
    /\ req[r].pc = "hist_lock"
    /\ history' = TrimHistoryLimits(<<req[r].entry[1]>> \o history)
    /\ req' = [req EXCEPT ![r].pc = "hist_persist",
                          ![r].hsnap = CloneHistory(history')]
    /\ UNCHANGED <<now, config, limiter, antibot, download_semaphore,
                   history_disk, workspace>>

(* push_history, line 1063, and what start_download does with its result: *)
(* lines 667-696 after a successful preparation, 714-715 after a failed   *)
(* one                                                                    *)
PersistHistory(r, written) ==
    /\ req[r].pc = "hist_persist"
    /\ history_disk' = IF written THEN SerializeHistory(req[r].hsnap)
                                   ELSE history_disk
    /\ IF req[r].outcome = "success"
       THEN IF ~written
            THEN /\ req' = [req EXCEPT ![r].pc = "discard"]
                 /\ UNCHANGED <<download_semaphore, cleanup_tasks>>
            ELSE IF HeadersBuilt(req[r].filename[1])
            THEN /\ ReturnHolding(r, STATUS_OK, "success")
                 /\ cleanup_tasks' = ScheduleCleanupDownloadJob(cleanup_tasks, r, now)
            ELSE /\ ReturnHolding(r, INTERNAL_SERVER_ERROR, "header_error")
                 /\ UNCHANGED cleanup_tasks
       ELSE /\ IF written
               THEN ReturnHolding(r, PreparationStatus(req[r].outcome),
                                  req[r].outcome)
               ELSE ReturnHolding(r, INTERNAL_SERVER_ERROR, "history_error")
            /\ UNCHANGED cleanup_tasks
    /\ UNCHANGED <<now, config, limiter, antibot, history, transfer_dir,
                   resolution>>

(* start_download, lines 666-667: the history could not be written after *)
(* a successful preparation; the job's directory is removed              *)
DiscardJob(r) ==
    /\ req[r].pc = "discard"
    /\ transfer_dir' = CleanupDownloadJob(transfer_dir, r)
    /\ ReturnHolding(r, INTERNAL_SERVER_ERROR, "history_error")
    /\ UNCHANGED <<now, config, limiter, antibot, history, history_disk,
                   cleanup_tasks, resolution>>

(* get_history: client_ip_for_request, then the listing under the lock *)
GetHistory(r, c) ==
    /\ FreeSlot(r)
    /\ attempts < MaxAttempts
    /\ attempts' = attempts + 1
    /\ req' = [req EXCEPT ![r] = [IdleRequest EXCEPT
                  !.pc = "done", !.client = c, !.status = Some(STATUS_OK),
                  !.outcome = "listed", !.listed = FilterTake(history, c)]]
    /\ UNCHANGED <<now, config, rate_limits, rate_disk, admitted, antibot, jobs>>

(* clear_history, lines 385-391: retain and clone under the lock *)
ClearHistoryLocked(r, c) ==
    /\ FreeSlot(r)
    /\ attempts < MaxAttempts
    /\ attempts' = attempts + 1
    /\ history' = RetainOthers(history, c)
    /\ req' = [req EXCEPT ![r] = [IdleRequest EXCEPT
                  !.pc = "clear_persist", !.client = c,
                  !.hsnap = CloneHistory(history')]]
    /\ UNCHANGED <<now, config, rate_limits, rate_disk, admitted, antibot,
                   download_semaphore, history_disk, workspace>>

(* clear_history, lines 393-394: persist_history(..)?, then the answer *)
ClearHistoryPersist(r, written) ==
    /\ req[r].pc = "clear_persist"
    /\ history_disk' = IF written THEN SerializeHistory(req[r].hsnap)
                                   ELSE history_disk
    /\ req' = [req EXCEPT ![r] = [IdleRequest EXCEPT
                  !.pc = "done", !.client = req[r].client,
                  !.outcome = "cleared",
                  !.status = Some(IF written THEN STATUS_OK
                                             ELSE INTERNAL_SERVER_ERROR)]]
    /\ UNCHANGED <<now, config, limiter, antibot, download_semaphore, history,
                   workspace>>

(* the task spawned at line 1408: the sleep is over, cleanup_download_job *)
(* runs                                                                   *)
RunCleanupTask(task) ==
    /\ task \in cleanup_tasks
    /\ now >= task.due
    /\ transfer_dir' = CleanupDownloadJob(transfer_dir, task.job)
    /\ cleanup_tasks' = cleanup_tasks \ {task}
    /\ UNCHANGED <<now, config, limiter, antibot, download_semaphore, history,
                   history_disk, resolution, req>>

(* the body of the response of slot r has been read to its end by the *)
(* connection: the stream of start_download, lines 636-637, is dropped *)
StreamBody(r) ==
    /\ req[r].body = "streaming"
    /\ req' = [req EXCEPT ![r].body = "sent"]
    /\ UNCHANGED <<now, config, limiter, antibot, jobs>>

(* MAX_CONCURRENT_DOWNLOADS, when set above 0, else the default *)
JobInit ==
    \E permits \in 1..DEFAULT_MAX_CONCURRENT_DOWNLOADS :
        InitWith(FALSE, permits, EmptyRateLimits)

JobAdmit == \E r \in Slots, c \in Clients : AdmitDownload(r, c)
JobAcquire == \E r \in Slots : AcquirePermit(r)
JobPrepare ==
    \E r \in Slots, o \in JobOutcomes, name \in PlainNames,
       len \in ArtifactLengths :
        PrepareDownload(r, o, name, len, TRUE)
JobPush == \E r \in Slots : PushHistoryLocked(r)
JobPersist == \E r \in Slots, written \in BOOLEAN : PersistHistory(r, written)
JobDiscard == \E r \in Slots : DiscardJob(r)

JobNext ==
    JobAdmit \/ JobAcquire \/ JobPrepare \/ JobPush \/ JobPersist \/ JobDiscard

SpecJob == JobInit /\ [][JobNext]_vars

(* SpecPool: the downloads of one client over a pool of one permit, *)
(* under the scheduling the handlers have.  The tokio semaphore     *)
(* hands its permits out in the order of the requests, so a waiter  *)
(* is not passed over for ever; the preparation ends because        *)
(* run_yt_dlp gives the extractor YT_DLP_TIMEOUT_SECONDS; the other *)
(* steps are a lock without an await inside and a write of a file.  *)
PoolInit == InitWith(FALSE, 1, EmptyRateLimits)

PoolPrepare(r) ==
    \E o \in {"success", "exit_failure"}, name \in PlainNames :
        PrepareDownload(r, o, name, MAX_DOWNLOAD_BYTES, TRUE)

PoolNext ==
    \/ \E r \in Slots : AdmitDownload(r, "1.2.3.4")
    \/ \E r \in Slots : AcquirePermit(r)
    \/ \E r \in Slots : PoolPrepare(r)
    \/ \E r \in Slots : PushHistoryLocked(r)
    \/ \E r \in Slots, written \in BOOLEAN : PersistHistory(r, written)
    \/ \E r \in Slots : DiscardJob(r)

SpecPool ==
    /\ PoolInit
    /\ [][PoolNext]_vars
    /\ \A r \in Slots :
          /\ SF_vars(AcquirePermit(r))
          /\ WF_vars(PoolPrepare(r))
          /\ WF_vars(PushHistoryLocked(r))
          /\ WF_vars(\E written \in BOOLEAN : PersistHistory(r, written))
          /\ WF_vars(DiscardJob(r))

(* The job directories: SpecWS follows the downloads of one client from *)
(* the permit to the end of the response, with every outcome of the     *)
(* preparation and every kind of name the file may have, under the      *)
(* smallest pool of permits.                                            *)
(* MAX_CONCURRENT_DOWNLOADS=1: one job at a time *)
WSInit == InitWith(FALSE, 1, EmptyRateLimits)

WSNext ==
    \/ \E r \in Slots : AdmitDownload(r, "1.2.3.4")
    \/ \E r \in Slots : AcquirePermit(r)
    \/ \E r \in Slots, o \in JobOutcomes, name \in Filenames,
          len \in ArtifactLengths, removed \in BOOLEAN :
          PrepareDownload(r, o, name, len, removed)
    \/ \E r \in Slots : PushHistoryLocked(r)
    \/ \E r \in Slots, written \in BOOLEAN : PersistHistory(r, written)
    \/ \E r \in Slots : DiscardJob(r)
    \/ \E r \in Slots : StreamBody(r)

SpecWS == WSInit /\ [][WSNext]_vars

(* The retention of a job's directory: SpecRet lets the clock pass the  *)
(* retention window and the stale threshold while downloads succeed or  *)
(* fail.  Time goes on, and the runtime runs a spawned task whose sleep *)
(* is over.                                                             *)
RetInstants ==
    {0, Seconds(DOWNLOAD_JOB_RETENTION_SECONDS),
     Seconds(STALE_DOWNLOAD_JOB_SECONDS)}

(* the clock is looked at at these instants and when a sleep ends *)
RetClock == RetInstants \cup {task.due : task \in cleanup_tasks}

RetInit == InitWith(FALSE, 1, EmptyRateLimits)

RetNext ==
    \/ \E r \in Slots : AdmitDownload(r, "1.2.3.4")
    \/ \E r \in Slots : AcquirePermit(r)
    \/ \E r \in Slots, o \in {"success", "exit_failure"}, name \in PlainNames,
          len \in ArtifactLengths :
          PrepareDownload(r, o, name, len, TRUE)
    \/ \E r \in Slots : PushHistoryLocked(r)
    \/ \E r \in Slots, written \in BOOLEAN : PersistHistory(r, written)
    \/ \E r \in Slots : DiscardJob(r)
    \/ \E task \in cleanup_tasks : RunCleanupTask(task)
    \/ Tick(RetClock)

SpecRet ==
    /\ RetInit
    /\ [][RetNext]_vars
    /\ WF_vars(Tick(RetClock))
    /\ \A r \in DownloadSlots :
          WF_vars(\E task \in cleanup_tasks :
                     task.job = r /\ RunCleanupTask(task))

(* ------------------------------------------------------------------ *)
(* HistoryLedger: the handlers of /api/history next to the downloads   *)
(* ------------------------------------------------------------------ *)
(* the requester the k-th of n requesters of a stored document stands *)
(* for: the last two are the clients of this run                      *)
Requester(k, n) ==
    IF k = n THEN "1.2.3.4" ELSE IF k = n - 1 THEN "5.6.7.8" ELSE ToString(k)

(* a history document that names the requester of each entry, as a build *)
(* without skip_serializing writes it: m entries of each of n requesters, *)
(* taking turns                                                          *)
NamedDocument(n, m) ==
    [i \in 1..(n * m) |->
        [id |-> 0 - i, requester_ip |-> Requester(((i - 1) % n) + 1, n),
         status |-> "success", created_at |-> 0, saved_path |-> Some(<<"a">>)]]

(* the history document an earlier run of this build wrote of k entries *)
WrittenDocument(k) == SerializeHistory(NamedDocument(1, k))

(* the instants at which the ledger is observed *)
HistInstants == {0, MsPerSecond}

(* the ends of a job the ledger tells apart *)
LedgerOutcomes == {"success", "oversized"}

(* the stored history: two entries of each client *)
HistDocuments == {NamedDocument(2, 2)}

HistInit ==
    \E doc \in HistDocuments :
        InitLoaded(FALSE, DEFAULT_MAX_CONCURRENT_DOWNLOADS, EmptyRateLimits,
                   LoadHistory(doc), doc)

HistNext ==
    \/ \E r \in Slots, c \in Clients : AdmitDownload(r, c)
    \/ \E r \in Slots : AcquirePermit(r)
    \/ \E r \in Slots, o \in LedgerOutcomes, name \in PlainNames,
          len \in ArtifactLengths :
          PrepareDownload(r, o, name, len, TRUE)
    \/ \E r \in Slots : PushHistoryLocked(r)
    \/ \E r \in Slots, written \in BOOLEAN : PersistHistory(r, written)
    \/ \E r \in Slots : DiscardJob(r)
    \/ \E r \in Slots, c \in Clients : GetHistory(r, c)
    \/ \E r \in Slots, c \in Clients : ClearHistoryLocked(r, c)
    \/ \E r \in Slots, written \in BOOLEAN : ClearHistoryPersist(r, written)
    \/ Tick(HistInstants)

SpecHist == HistInit /\ [][HistNext]_vars

(* The limits of the ledger are kept by each operation on its own, so   *)
(* SpecTrim starts the process on a stored document and follows the     *)
(* load and one request: the documents put the list at, and above, the  *)
(* limit of a requester and the limit of the whole list.                *)
StartSlot == MaxAttempts + MaxChallenges

(* run, line 292: load_history, before any request is served *)
LoadHistoryAtStart(r) ==
    /\ req[r].pc = "load_history"
    /\ history' = LoadHistory(history_disk)
    /\ req' = [req EXCEPT ![r] = IdleRequest]
    /\ UNCHANGED <<now, config, limiter, antibot, download_semaphore,
                   history_disk, workspace>>

(* no handler is running, and none has run *)
Quiet == \A r \in Slots : req[r].pc = "idle"

(* what an earlier run of this build wrote of eleven entries; eleven and *)
(* ten entries of each of two requesters; ten entries of each of 201     *)
TrimDocuments ==
    {<<>>, WrittenDocument(HISTORY_PER_IP_LIMIT + 1),
     NamedDocument(2, HISTORY_PER_IP_LIMIT + 1),
     NamedDocument(2, HISTORY_PER_IP_LIMIT),
     NamedDocument(HISTORY_MAX_ENTRIES \div HISTORY_PER_IP_LIMIT + 1,
                   HISTORY_PER_IP_LIMIT)}

TrimInit ==
    /\ now = 0
    /\ turnstile_secret_key = FALSE
    /\ rate_limits = EmptyRateLimits
    /\ rate_disk = EmptyRateLimits
    /\ admitted = EmptyRateLimits
    /\ attempts = 0
    /\ anti_bot_challenges = EmptyChallenges
    /\ issued = EmptyChallenges
    /\ passed = [i \in Ids |-> <<>>]
    /\ max_concurrent_downloads = DEFAULT_MAX_CONCURRENT_DOWNLOADS
    /\ download_semaphore = DEFAULT_MAX_CONCURRENT_DOWNLOADS
    /\ history = <<>>
    /\ history_disk \in TrimDocuments
    /\ transfer_dir = {}
    /\ cleanup_tasks = {}
    /\ resolution = NoResolution
    /\ req = [r \in Slots |->
                 IF r = StartSlot
                 THEN [IdleRequest EXCEPT !.pc = "load_history"]
                 ELSE IdleRequest]

TrimNext ==
    \/ \E r \in Slots : LoadHistoryAtStart(r)
    \/ Quiet /\ \E r \in Slots, c \in Clients : AdmitDownload(r, c)
    \/ \E r \in Slots : AcquirePermit(r)
    \/ \E r \in Slots, o \in LedgerOutcomes, name \in PlainNames,
          len \in ArtifactLengths :
          PrepareDownload(r, o, name, len, TRUE)
    \/ \E r \in Slots : PushHistoryLocked(r)
    \/ \E r \in Slots, written \in BOOLEAN : PersistHistory(r, written)
    \/ \E r \in Slots : DiscardJob(r)
    \/ Quiet /\ \E r \in Slots, c \in Clients : GetHistory(r, c)
    \/ Quiet /\ \E r \in Slots, c \in Clients : ClearHistoryLocked(r, c)
    \/ \E r \in Slots, written \in BOOLEAN : ClearHistoryPersist(r, written)

SpecTrim == TrimInit /\ [][TrimNext]_vars

(* ------------------------------------------------------------------ *)
(* The process ends and run starts again                               *)
(* ------------------------------------------------------------------ *)
(* a handler that was in flight when the process ended is gone *)
Killed(rq) ==
    IF rq.pc \in {"idle", "done"}
    THEN rq
    ELSE [IdleRequest EXCEPT !.pc = "done", !.outcome = "killed"]

(* run, lines 271-330: the tables in memory are made anew from the two *)
(* documents, the challenges and the spawned tasks are gone, the pool  *)
(* of permits is full again, and the stale sweep runs before serving   *)
Restart ==
    /\ history' = LoadHistory(history_disk)
    /\ rate_limits' = LoadRateLimits(rate_disk, now)
    /\ anti_bot_challenges' = EmptyChallenges
    /\ download_semaphore' = max_concurrent_downloads
    /\ cleanup_tasks' = {}
    /\ transfer_dir' = CleanupStaleDownloadJobs(transfer_dir, now,
                                                STALE_DOWNLOAD_JOB_SECONDS)
    /\ req' = [r \in Slots |-> Killed(req[r])]
    /\ UNCHANGED <<now, config, rate_disk, history_disk, issued, passed,
                   admitted, attempts, resolution>>

(* SpecBoot: the downloads and listings of two clients, and restarts *)
(* of the process at any moment                                      *)
BootInit == InitWith(FALSE, 1, EmptyRateLimits)

BootNext ==
    \/ \E r \in Slots, c \in Clients : AdmitDownload(r, c)
    \/ \E r \in Slots : AcquirePermit(r)
    \/ \E r \in Slots, o \in LedgerOutcomes, name \in PlainNames,
          len \in ArtifactLengths :
          PrepareDownload(r, o, name, len, TRUE)
    \/ \E r \in Slots : PushHistoryLocked(r)
    \/ \E r \in Slots, written \in BOOLEAN : PersistHistory(r, written)
    \/ \E r \in Slots : DiscardJob(r)
    \/ \E r \in Slots, c \in Clients : GetHistory(r, c)
    \/ Restart

SpecBoot == BootInit /\ [][BootNext]_vars

(* ------------------------------------------------------------------ *)
(* The job directories over time, with restarts                        *)
(* ------------------------------------------------------------------ *)
(* start_download, lines 544-557: the stale sweep, then create_dir_all; *)
(* the extractor is started in the directory made                       *)
BeginJob(r, made) ==
    /\ req[r].pc = "prepare"
    /\ LET swept == CleanupStaleDownloadJobs(transfer_dir, now,
                                             STALE_DOWNLOAD_JOB_SECONDS)
       IN IF made
          THEN /\ transfer_dir' = CreateDirAll(swept, r, now)
               /\ req' = [req EXCEPT ![r].pc = "extract"]
               /\ UNCHANGED download_semaphore
          ELSE /\ transfer_dir' = swept
               /\ ReturnHolding(r, INTERNAL_SERVER_ERROR, "mkdir_error")
    /\ UNCHANGED <<now, config, limiter, antibot, history, history_disk,
                   cleanup_tasks, resolution>>

(* start_download, lines 606-712: the preparation block ends in the  *)
(* directory made before; a failed job's directory is removed        *)
EndJob(r, outcome, name, len) ==
    /\ req[r].pc = "extract"
    /\ outcome \in ResolvedOutcomes => (outcome = "oversized") = Oversized(len)
    /\ IF outcome = "success"
       THEN /\ req' = [req EXCEPT
                  ![r].pc = "hist_lock",
                  ![r].outcome = outcome,
                  ![r].filename = Some(name),
                  ![r].content_length = Some(len),
                  ![r].entry = Some(HistoryEntry(r, req[r].client,
                                                 "success", Some(name)))]
            /\ UNCHANGED transfer_dir
       ELSE /\ req' = [req EXCEPT
                  ![r].pc = "hist_lock",
                  ![r].outcome = outcome,
                  ![r].content_length = IF outcome \in ResolvedOutcomes
                                        THEN Some(len) ELSE None,
                  ![r].entry = Some(HistoryEntry(r, req[r].client,
                                                 "failed", None))]
            /\ transfer_dir' = CleanupDownloadJob(transfer_dir, r)
    /\ UNCHANGED <<now, config, limiter, antibot, download_semaphore, history,
                   history_disk, cleanup_tasks, resolution>>

(* the instants at which the job directories are observed: the start, *)
(* the end of an extraction that began then, the end of a retention   *)
(* window and the stale threshold                                     *)
CrashInstants ==
    {0, Seconds(YT_DLP_TIMEOUT_SECONDS), Seconds(DOWNLOAD_JOB_RETENTION_SECONDS),
     Seconds(STALE_DOWNLOAD_JOB_SECONDS)}

CrashClock == CrashInstants \cup {task.due : task \in cleanup_tasks}

(* Time passes while handlers wait for a permit or for the extractor, *)
(* which run_yt_dlp gives YT_DLP_TIMEOUT_SECONDS at most (lines       *)
(* 1289-1295).  The steps of a handler on the local file system and   *)
(* under the locks are short against these instants: the clock stands *)
(* still over them.                                                   *)
PassTime ==
    /\ \A r \in DownloadSlots :
          req[r].pc \notin {"prepare", "hist_lock", "hist_persist", "discard"}
    /\ Tick(CrashClock)
    /\ \A d \in transfer_dir :
          req[d.job].pc = "extract"
              => now' <= d.modified + Seconds(YT_DLP_TIMEOUT_SECONDS)

(* MAX_CONCURRENT_DOWNLOADS=2: a job may begin while another extracts *)
CrashInit == InitWith(FALSE, 2, EmptyRateLimits)

CrashNext ==
    \/ \E r \in Slots : AdmitDownload(r, "1.2.3.4")
    \/ \E r \in Slots : AcquirePermit(r)
    \/ \E r \in Slots, made \in BOOLEAN : BeginJob(r, made)
    \/ \E r \in Slots, o \in {"success", "exit_failure"}, name \in PlainNames :
          EndJob(r, o, name, MAX_DOWNLOAD_BYTES)
    \/ \E r \in Slots : PushHistoryLocked(r)
    \/ \E r \in Slots, written \in BOOLEAN : PersistHistory(r, written)
    \/ \E r \in Slots : DiscardJob(r)
    \/ \E task \in cleanup_tasks : RunCleanupTask(task)
    \/ PassTime
    \/ Restart

(* The runtime runs a handler that can go on and a task whose sleep is *)
(* over, and time goes on.  Nothing makes a request arrive or the      *)
(* process start again.                                                *)
SpecCrash ==
    /\ CrashInit
    /\ [][CrashNext]_vars
    /\ WF_vars(PassTime)
    /\ WF_vars(\E task \in cleanup_tasks : RunCleanupTask(task))
    /\ WF_vars(\E r \in Slots : AcquirePermit(r))
    /\ WF_vars(\E r \in Slots, made \in BOOLEAN : BeginJob(r, made))
    /\ WF_vars(\E r \in Slots, o \in {"success", "exit_failure"},
                  name \in PlainNames : EndJob(r, o, name, MAX_DOWNLOAD_BYTES))
    /\ WF_vars(\E r \in Slots : PushHistoryLocked(r))
    /\ WF_vars(\E r \in Slots, written \in BOOLEAN : PersistHistory(r, written))
    /\ WF_vars(\E r \in Slots : DiscardJob(r))

(* ------------------------------------------------------------------ *)
(* start_download from its first line to its return                    *)
(* ------------------------------------------------------------------ *)
(* SpecFlow follows the download requests of one client through the   *)
(* bot check (delegated strategy), the rate limiter, the permit and   *)
(* the job, the client being at its limit or one attempt short of it. *)
FlowPayloads == {p \in Payloads(TRUE) : p.honey = None}

FlowAnswers == {"success_true", "success_false"}

FlowOutcomes == {"mkdir_error", "timeout", "oversized", "success"}

FlowInit ==
    \E doc \in StoredDocuments : InitWith(TRUE, 1, LoadRateLimits(doc, 0))

FlowNext ==
    \/ \E r \in Slots, p \in FlowPayloads : ReceiveDownload(r, "1.2.3.4", p)
    \/ \E r \in Slots, o \in FlowAnswers : VerifyTurnstileToken(r, o)
    \/ \E r \in Slots : ProceedToRegister(r)
    \/ \E r \in Slots : RegisterLocked(r)
    \/ \E r \in Slots, written \in BOOLEAN : RegisterPersist(r, written)
    \/ \E r \in Slots : AcquirePermit(r)
    \/ \E r \in Slots, o \in FlowOutcomes, name \in PlainNames,
          len \in ArtifactLengths :
          PrepareDownload(r, o, name, len, TRUE)
    \/ \E r \in Slots : PushHistoryLocked(r)
    \/ \E r \in Slots, written \in BOOLEAN : PersistHistory(r, written)
    \/ \E r \in Slots : DiscardJob(r)

SpecFlow == FlowInit /\ [][FlowNext]_vars

(* SpecIO runs every handler that takes a lock, under either strategy: *)
(* the download pipeline, clear_history, get_history and the issuance  *)
(* of challenges, for one client.                                      *)
IOInit == \E secret \in BOOLEAN : InitWith(secret, 1, EmptyRateLimits)

IONext ==
    \/ \E r \in Slots : CreateChallengeBegin(r, "1.2.3.4")
    \/ \E r \in Slots : CreateChallengeLocked(r)
    \/ \E r \in Slots,
          p \in IF turnstile_secret_key THEN FlowPayloads ELSE Completed :
          ReceiveDownload(r, "1.2.3.4", p)
    \/ \E r \in Slots, o \in FlowAnswers : VerifyTurnstileToken(r, o)
    \/ \E r \in Slots : ValidateAntibotLocked(r)
    \/ \E r \in Slots : ProceedToRegister(r)
    \/ \E r \in Slots : RegisterLocked(r)
    \/ \E r \in Slots, written \in BOOLEAN : RegisterPersist(r, written)
    \/ \E r \in Slots : AcquirePermit(r)
    \/ \E r \in Slots, name \in PlainNames, len \in ArtifactLengths :
          PrepareDownload(r, "success", name, len, TRUE)
    \/ \E r \in Slots : PushHistoryLocked(r)
    \/ \E r \in Slots, written \in BOOLEAN : PersistHistory(r, written)
    \/ \E r \in Slots : DiscardJob(r)
    \/ \E r \in Slots : GetHistory(r, "1.2.3.4")
    \/ \E r \in Slots : ClearHistoryLocked(r, "1.2.3.4")
    \/ \E r \in Slots, written \in BOOLEAN : ClearHistoryPersist(r, written)

SpecIO == IOInit /\ [][IONext]_vars

(* ------------------------------------------------------------------ *)
(* Claims about the rate limiter                                       *)
(* ------------------------------------------------------------------ *)
(* the admitted attempts of client c stamped inside the 24h window that ends at `at` *)
AdmittedInWindow(c, at) ==
    Cardinality({i \in DOMAIN admitted[c] :
                    admitted[c][i] > WindowStart(at) /\ admitted[c][i] <= at})

(* C1: for every client and every trailing 24-hour window, the attempts  *)
(* admitted by register_download_attempt whose timestamps fall in that   *)
(* window never number more than 10 (a window that holds the most        *)
(* attempts ends at the timestamp of one of them)                        *)
C1_WindowHoldsAtMostLimit ==
    \A c \in Clients : \A i \in DOMAIN admitted[c] :
        AdmittedInWindow(c, admitted[c][i]) <= DOWNLOAD_LIMIT_PER_DAY

(* slot r takes the critical section of register_download_attempt in this step *)
TakesLock(r) == req[r].pc = "rl_lock" /\ req'[r].pc = "rl_persist"

(* slot p appended its attempt in its critical section and was not turned away since *)
Appended(p) ==
    /\ req[p].pc \in {"rl_persist", "acquire"}
    /\ req[p].retry = None

(* r and p are requests of one client that both read the clock while the    *)
(* client had the same 9 attempts in the window, and these 9 are still      *)
(* inside the trailing window as r takes the lock                           *)
RaceAtNine(r, p) ==
    /\ r # p
    /\ req[p].client = req[r].client
    /\ Len(req[r].base) = DOWNLOAD_LIMIT_PER_DAY - 1
    /\ req[p].base = req[r].base
    /\ \A i \in DOMAIN req[r].base : req[r].base[i] > WindowStart(now)

(* C2: when two requests of the same client run register_download_attempt *)
(* concurrently while the client has 9 attempts in the window, at most    *)
(* one of them is admitted: once one has appended its attempt, the        *)
(* critical section of the other turns it away                            *)
C2_OneOfTwoAtNine ==
    [][\A r \in Slots, p \in Slots :
          (TakesLock(r) /\ Appended(p) /\ RaceAtNine(r, p))
              => req'[r].retry # None]_vars

(* a rival appended its attempt and the other request of the race was turned away *)
C2_Witness ==
    \E r \in Slots, p \in Slots :
        /\ r # p
        /\ req[p].client = req[r].client
        /\ Len(req[r].base) = DOWNLOAD_LIMIT_PER_DAY - 1
        /\ req[p].base = req[r].base
        /\ req[p].pc = "acquire"
        /\ req[r].pc = "rl_persist"
        /\ req[r].retry # None

(* multiset inclusion of two sorted timestamp lists *)
SubList(small, big) == \A t \in Range(small) : Count(small, t) <= Count(big, t)

(* r's critical section turns the request away: a Retry-After above 0, no *)
(* new entry, and nothing removed that is inside the 24h before the       *)
(* request's clock reading                                                *)
TurnedAway(r) ==
    LET c == req[r].client
    IN /\ req'[r].retry # None
       /\ req'[r].retry[1] > 0
       /\ SubList(rate_limits'[c], rate_limits[c])
       /\ \A t \in Range(rate_limits[c]) :
             Count(rate_limits'[c], t) < Count(rate_limits[c], t)
                 => t <= WindowStart(req[r].now)
       /\ \A d \in Clients \ {c} : rate_limits'[d] = rate_limits[d]

(* slot r, turned away by its critical section, returns in this step *)
ReturnsTurnedAway(r) ==
    req[r].pc = "rl_persist" /\ req[r].retry # None /\ req'[r].pc # "rl_persist"

(* C3 as the spec states it: with 10 attempts inside the trailing 24h    *)
(* window a further admit is answered 429 with a Retry-After above 0 and *)
(* records no new timestamp                                              *)
C3_RejectedWith429 ==
    [][\A r \in Slots :
          /\ (TakesLock(r)
                 /\ AdmittedInWindow(req[r].client, now) >= DOWNLOAD_LIMIT_PER_DAY)
              => TurnedAway(r)
          /\ ReturnsTurnedAway(r)
              => /\ req'[r].status = Some(TOO_MANY_REQUESTS)
                 /\ req'[r].retry = req[r].retry]_vars

(* C3, amended: ... the further admit is turned away, with no new         *)
(* timestamp; it is answered 429 with that Retry-After once the pruned    *)
(* table has been written, and 500 when that write fails                  *)
C3_RejectedAtLimit ==
    [][\A r \in Slots :
          /\ (TakesLock(r)
                 /\ AdmittedInWindow(req[r].client, now) >= DOWNLOAD_LIMIT_PER_DAY)
              => TurnedAway(r)
          /\ ReturnsTurnedAway(r)
              => /\ req'[r].pc = "done"
                 /\ rate_limits' = rate_limits
                 /\ admitted' = admitted
                 /\ \/ /\ req'[r].status = Some(TOO_MANY_REQUESTS)
                       /\ req'[r].retry = req[r].retry
                       /\ rate_disk' = req[r].snapshot
                    \/ /\ req'[r].status = Some(INTERNAL_SERVER_ERROR)
                       /\ rate_disk' = rate_disk]_vars

(* the 11th attempt of a client inside its window was answered 429 *)
C3_Witness ==
    \E r \in Slots :
        /\ req[r].pc = "done"
        /\ req[r].status = Some(TOO_MANY_REQUESTS)
        /\ req[r].retry # None
        /\ AdmittedInWindow(req[r].client, now) >= DOWNLOAD_LIMIT_PER_DAY
        /\ Len(rate_limits[req[r].client]) = DOWNLOAD_LIMIT_PER_DAY

(* ------------------------------------------------------------------ *)
(* Claims about the anti-bot engine (local proof of work)              *)
(* ------------------------------------------------------------------ *)
(* slot r serves a download request that presented challenge id i *)
Presents(r, i) ==
    /\ req[r].payload # None
    /\ req[r].payload[1].cid = Some(i)

(* slot r was rejected with 403 by the check named *)
RejectedAt(r, check) ==
    /\ req[r].pc = "done"
    /\ req[r].status = Some(FORBIDDEN)
    /\ req[r].checks # <<>>
    /\ req[r].checks[Len(req[r].checks)] = check

(* C4: a challenge id validates at most once, also when two requests *)
(* present it concurrently                                           *)
C4_ValidatesAtMostOnce == \A i \in Ids : Len(passed[i]) <= 1

(* of two requests that presented one id, one was verified and the other *)
(* found the challenge gone                                              *)
C4_Witness ==
    \E r \in Slots, q \in Slots, i \in Ids :
        /\ r # q
        /\ Presents(r, i) /\ req[r].pc = "verified"
        /\ Presents(q, i) /\ RejectedAt(q, "lookup")
        /\ Len(passed[i]) = 1

(* C5: a validation succeeds only for the identity the challenge was   *)
(* issued to; any other identity presenting the id, even with a right  *)
(* solution, is rejected with 403                                      *)
C5_OnlyForBoundIdentity ==
    /\ \A i \in Ids : \A k \in DOMAIN passed[i] :
          passed[i][k].client = issued[i].ip
    /\ \A r \in Slots, i \in DOMAIN issued :
          (/\ Presents(r, i)
           /\ req[r].pc \in {"done", "verified"}
           /\ req[r].client # issued[i].ip)
              => req[r].pc = "done" /\ req[r].status = Some(FORBIDDEN)

(* another identity presented a live challenge with its right solution *)
(* and was rejected by the identity comparison                         *)
C5_Witness ==
    \E r \in Slots, i \in DOMAIN issued :
        /\ Presents(r, i)
        /\ RejectedAt(r, "ip")
        /\ req[r].client # issued[i].ip
        /\ IsPowSolutionValid(i, issued[i].nonce, req[r].payload[1].sol[1])

(* C6: no challenge validates once more than ANTIBOT_CHALLENGE_TTL_SECONDS *)
(* have elapsed since its creation                                         *)
C6_NeverAfterTtl ==
    \A i \in Ids : \A k \in DOMAIN passed[i] :
        passed[i][k].at - issued[i].created_at
            <= Seconds(ANTIBOT_CHALLENGE_TTL_SECONDS)

(* ------------------------------------------------------------------ *)
(* Claims about the checks on the payload                              *)
(* ------------------------------------------------------------------ *)
(* the request of slot r carries a honeypot field that is not blank *)
HoneypotTripped(r) ==
    /\ req[r].payload # None
    /\ req[r].payload[1].honey # None
    /\ \E k \in DOMAIN req[r].payload[1].honey[1] :
          req[r].payload[1].honey[1][k] # " "

(* the request of slot r reports less than ANTIBOT_MIN_ELAPSED_MS, or nothing *)
TooFast(r) ==
    /\ req[r].payload # None
    /\ \/ req[r].payload[1].elapsed = None
       \/ req[r].payload[1].elapsed[1] < ANTIBOT_MIN_ELAPSED_MS

(* but for the field in question, the request of slot r would pass the   *)
(* local check: it presents a live challenge issued to its identity, and *)
(* the right solution                                                    *)
OtherwiseValid(r) ==
    /\ req[r].payload # None
    /\ \E i \in DOMAIN anti_bot_challenges :
          /\ req[r].payload[1].cid = Some(i)
          /\ anti_bot_challenges[i].ip = req[r].client
          /\ req[r].payload[1].sol # None
          /\ IsPowSolutionValid(i, anti_bot_challenges[i].nonce,
                                req[r].payload[1].sol[1])

(* C7: under either strategy a request whose honeypot field is not blank *)
(* is rejected with 403 before any other protection check is evaluated   *)
C7_HoneypotFirst ==
    \A r \in Slots :
        HoneypotTripped(r)
            => /\ req[r].pc = "done"
               /\ req[r].status = Some(FORBIDDEN)
               /\ req[r].checks = <<"honeypot">>

(* a request that would pass the local check but for its honeypot field *)
(* was rejected by the honeypot test alone                              *)
C7_Witness ==
    \E r \in Slots :
        /\ HoneypotTripped(r)
        /\ ~TooFast(r)
        /\ OtherwiseValid(r)
        /\ RejectedAt(r, "honeypot")

(* C8: under the local strategy a request whose reported elapsed time is *)
(* below ANTIBOT_MIN_ELAPSED_MS, or absent, is rejected with 403         *)
C8_TooFastRejected ==
    \A r \in Slots :
        (~turnstile_secret_key /\ TooFast(r))
            => req[r].pc = "done" /\ req[r].status = Some(FORBIDDEN)

(* a request that would pass the local check but for its elapsed time *)
(* was rejected by the elapsed-time test                              *)
C8_Witness ==
    \E r \in Slots :
        /\ ~turnstile_secret_key
        /\ TooFast(r)
        /\ ~HoneypotTripped(r)
        /\ OtherwiseValid(r)
        /\ RejectedAt(r, "elapsed")

(* the request of slot r was taken up under the delegated strategy *)
Delegated(r) == turnstile_secret_key /\ req[r].payload # None

(* the request of slot r carries a token that is not blank *)
TokenGiven(r) ==
    /\ req[r].payload[1].token # None
    /\ \E k \in DOMAIN req[r].payload[1].token[1] :
          req[r].payload[1].token[1][k] # " "

(* what became of the call to the verification service, if it was made *)
ServiceAnswer(r) == IF Len(req[r].checks) >= 3 THEN req[r].checks[3] ELSE NONE

(* the handler of slot r went past verify_request_protection *)
PastBotCheck(r) ==
    \/ req[r].pc \in {"verified", "rl_lock", "rl_persist", "acquire"}
    \/ /\ req[r].pc = "done"
       /\ req[r].status \in {Some(TOO_MANY_REQUESTS), Some(INTERNAL_SERVER_ERROR)}

(* C20: under the delegated strategy a request goes past the anti-bot   *)
(* check only with a token the service answered with a success status   *)
(* and success = true; without a token, or on a transport error, a      *)
(* timeout, another status, an unreadable body or success = false it is *)
(* rejected with 403, and a rejected request leaves the rate limiter    *)
(* untouched and goes no further                                        *)
C20_DelegatedFailsClosed ==
    \A r \in DownloadSlots :
        Delegated(r)
            => /\ PastBotCheck(r)
                    => TokenGiven(r) /\ ServiceAnswer(r) = "success_true"
               /\ (req[r].pc # "turnstile"
                      /\ (~TokenGiven(r) \/ ServiceAnswer(r) # "success_true"))
                    => req[r].pc = "done" /\ req[r].status = Some(FORBIDDEN)
               /\ req[r].status = Some(FORBIDDEN)
                    => /\ req[r].pc = "done"
                       /\ rate_limits = EmptyRateLimits
                       /\ rate_disk = EmptyRateLimits
                       /\ admitted = EmptyRateLimits

(* a request whose token the service confirmed was admitted by the rate *)
(* limiter                                                              *)
C20_Witness ==
    \E r \in DownloadSlots :
        /\ Delegated(r)
        /\ ServiceAnswer(r) = "success_true"
        /\ req[r].pc = "acquire"
        /\ admitted[req[r].client] # <<>>

(* the entries of the ledger made for client c *)
RecordsOf(c) == SelectSeq(history, LAMBDA e : e.requester_ip = c)

(* C15: every /api/download request whose handler has returned left one *)
(* entry in the history, whatever its outcome (SpecVP takes up a single *)
(* request, so the entries of its client are the entries made for it)   *)
C15_OneRecordPerRequest ==
    \A r \in DownloadSlots :
        (req[r].payload # None /\ req[r].pc = "done")
            => Len(RecordsOf(req[r].client)) = 1

(* ------------------------------------------------------------------ *)
(* Claims about the history ledger                                     *)
(* ------------------------------------------------------------------ *)
(* C12: whatever the clients have recorded and cleared, the list that *)
(* get_history returned to a client holds entries of that client only *)
C12_ListsOwnEntriesOnly ==
    \A r \in DownloadSlots :
        req[r].outcome = "listed"
            => \A k \in DOMAIN req[r].listed :
                  req[r].listed[k].requester_ip = req[r].client

(* a client was given its entries, a stored one and one of this run, *)
(* while the ledger held entries of the other client as well         *)
C12_Witness ==
    \E r \in DownloadSlots :
        /\ req[r].outcome = "listed"
        /\ \E k \in DOMAIN req[r].listed : req[r].listed[k].id > 0
        /\ \E k \in DOMAIN req[r].listed : req[r].listed[k].id < 0
        /\ \E k \in DOMAIN history : history[k].requester_ip # req[r].client

(* C14: the history is ordered newest first by created_at, whatever the *)
(* interleaving of the requests                                         *)
C14_NewestFirst ==
    \A i, j \in DOMAIN history :
        i < j => history[i].created_at >= history[j].created_at

(* `out` is `base` with some entries taken out: those that are left are *)
(* in the order they had (every entry has an id of its own)            *)
KeepsOrder(out, base) ==
    LET left == {out[i].id : i \in DOMAIN out}
    IN SelectSeq(base, LAMBDA e : e.id \in left) = out

(* no requester has more than HISTORY_PER_IP_LIMIT entries in the list, *)
(* and the list no more than HISTORY_MAX_ENTRIES                        *)
WithinLimits(list) ==
    /\ Len(list) <= HISTORY_MAX_ENTRIES
    /\ \A ip \in {list[k].requester_ip : k \in DOMAIN list} :
          Cardinality({k \in DOMAIN list : list[k].requester_ip = ip})
              <= HISTORY_PER_IP_LIMIT

(* `out` is `base` without the entries that stand furthest from the head: *)
(* an entry is missing only if HISTORY_PER_IP_LIMIT entries of its        *)
(* requester stand before it, or if the list is full and nothing that     *)
(* stands behind it was kept                                              *)
DropsOldest(out, base) ==
    LET left == {out[i].id : i \in DOMAIN out}
    IN /\ KeepsOrder(out, base)
       /\ \A k \in DOMAIN base :
             base[k].id \notin left
                 => \/ Cardinality({j \in 1..(k - 1) :
                           base[j].requester_ip = base[k].requester_ip})
                          >= HISTORY_PER_IP_LIMIT
                    \/ /\ Len(out) = HISTORY_MAX_ENTRIES
                       /\ \A j \in (k + 1)..Len(base) : base[j].id \notin left

(* the process loads its history in this step *)
Loads(r) == req[r].pc = "load_history" /\ req'[r].pc = "idle"

(* the handler of slot r runs the locked part of push_history in this step *)
Pushes(r) == req[r].pc = "hist_lock" /\ req'[r].pc = "hist_persist"

(* C13: after load_history, push_history and clear_history the list in  *)
(* memory holds at most 10 entries of a requester and at most 2000 in   *)
(* all, and what load_history and push_history drop to get there are    *)
(* the entries furthest from the head                                   *)
C13_LimitsKept ==
    [][/\ history' # history => WithinLimits(history')
       /\ \A r \in Slots :
             Loads(r) => DropsOldest(history', DeserializeHistory(history_disk))
       /\ \A r \in Slots :
             Pushes(r) => DropsOldest(history', <<req[r].entry[1]>> \o history)]_vars

(* the list is full, and a client one short of its limit has recorded a *)
(* download: the list is full still, the entry is at its head, and the  *)
(* entry that stood last is gone                                        *)
C13_Witness ==
    \E r \in DownloadSlots :
        /\ req[r].pc = "hist_persist"
        /\ Len(history) = HISTORY_MAX_ENTRIES
        /\ history[1].id = r
        /\ Cardinality({k \in DOMAIN history :
                           history[k].requester_ip = req[r].client})
              = HISTORY_PER_IP_LIMIT
        /\ Len(history_disk) = HISTORY_MAX_ENTRIES + HISTORY_PER_IP_LIMIT
        /\ history[HISTORY_MAX_ENTRIES].id # history_disk[HISTORY_MAX_ENTRIES].id

(* slot r takes up a clear_history of client c in this step *)
Clears(r, c) ==
    /\ req[r].pc = "idle"
    /\ req'[r].pc = "clear_persist"
    /\ req'[r].client = c

(* C16: clear_history of client c removes the entries of c, all of them, *)
(* and leaves those of every other client in the list, in their order    *)
C16_ClearsOwnEntriesOnly ==
    [][\A r \in DownloadSlots, c \in Clients :
          Clears(r, c)
              => /\ \A k \in DOMAIN history' : history'[k].requester_ip # c
                 /\ KeepsOrder(history', history)
                 /\ Len(history') =
                        Cardinality({k \in DOMAIN history :
                                        history[k].requester_ip # c})]_vars

(* a client that had entries cleared them, and the other client's two *)
(* entries, one stored and one of this run, are what is left          *)
C16_Witness ==
    \E r \in DownloadSlots :
        /\ req[r].pc = "clear_persist"
        /\ \E q \in DownloadSlots :
              /\ req[q].pc = "done"
              /\ req[q].outcome \in LedgerOutcomes
        /\ Len(history) = 3
        /\ history[1].id > 0
        /\ \A k \in DOMAIN history : history[k].requester_ip # req[r].client

(* ------------------------------------------------------------------ *)
(* Claims about the download permits                                   *)
(* ------------------------------------------------------------------ *)
Holders == {r \in Slots : HoldsPermit(r)}

(* C9: at no time do more than max_concurrent_downloads requests stand *)
(* between the acquisition of a permit and the handler's return        *)
C9_AtMostNHolders ==
    /\ Cardinality(Holders) <= max_concurrent_downloads
    /\ download_semaphore >= 0

(* every permit is held and a further request waits for one *)
C9_Witness ==
    /\ Cardinality(Holders) = max_concurrent_downloads
    /\ download_semaphore = 0
    /\ \E r \in Slots : req[r].pc = "acquire"

(* C10: every request that acquired a permit gives it back on whatever *)
(* path its handler returns: the permits available and the permits     *)
(* held always add up to max_concurrent_downloads, so that with no     *)
(* request in flight all of them are available                         *)
C10_PermitsComeBack ==
    /\ download_semaphore + Cardinality(Holders) = max_concurrent_downloads
    /\ (\A r \in Slots : req[r].pc \in {"idle", "done"})
          => download_semaphore = max_concurrent_downloads

(* two requests have returned, one on a failure path and one with the *)
(* download, no request is in flight and every permit is available    *)
C10_Witness ==
    /\ \A r \in Slots : req[r].pc \in {"idle", "done"}
    /\ \E r \in Slots : req[r].pc = "done" /\ req[r].outcome = "success"
    /\ \E r \in Slots :
          /\ req[r].pc = "done"
          /\ req[r].outcome \in {"timeout", "exit_failure", "oversized",
                                 "mkdir_error", "history_error"}
    /\ download_semaphore = max_concurrent_downloads

(* the responses whose body is still being read by the connection *)
Streaming == {r \in Slots : req[r].body = "streaming"}

(* C11: on a successful job the permit stays held until the body has   *)
(* been streamed to its end: the permits available, the permits of the *)
(* handlers that have not returned and the permits of the jobs still   *)
(* streaming never add up to more than max_concurrent_downloads, so a  *)
(* streaming job counts against the bound                              *)
C11_HeldWhileStreaming ==
    download_semaphore + Cardinality(Holders \cup Streaming)
        <= max_concurrent_downloads

(* ------------------------------------------------------------------ *)
(* Claims about the job directories                                    *)
(* ------------------------------------------------------------------ *)
(* the directory of job r is on disk *)
DirExists(r) == \E d \in transfer_dir : d.job = r

(* the handler of slot r has returned an error *)
ReturnedError(r) ==
    /\ req[r].pc = "done"
    /\ req[r].status # Some(STATUS_OK)

(* C18: when a download request returns an error, the directory of its *)
(* job is not on disk: a handler that made the directory has removed   *)
(* it before it returns, whatever the failure                          *)
C18_FailedJobLeavesNothing ==
    \A r \in DownloadSlots : ReturnedError(r) => ~DirExists(r)

(* the handler of slot r returns, and the file it resolved was above *)
(* MAX_DOWNLOAD_BYTES                                                *)
ReturnsOversized(r) ==
    /\ req[r].pc = "hist_persist"
    /\ req[r].content_length # None
    /\ Oversized(req[r].content_length[1])
    /\ req'[r].pc = "done"

(* what push_history recorded for the request of slot r: a failure, *)
(* with no saved_path                                               *)
RecordedFailed(r) ==
    /\ req[r].hsnap # <<>>
    /\ req[r].hsnap[1].id = r
    /\ req[r].hsnap[1].status = "failed"
    /\ req[r].hsnap[1].saved_path = None

(* the history file holds the entry of the request of slot r *)
OnDisk(r, doc) == \E k \in DOMAIN doc : doc[k].id = r

(* C19, as the spec states it: a request whose resolved file is above *)
(* 250 MiB is answered 400, its directory is removed and its history  *)
(* entry is a failure with no saved_path                              *)
C19_OversizedIs400 ==
    [][\A r \in DownloadSlots :
          ReturnsOversized(r) =>
              /\ req'[r].status = Some(BAD_REQUEST)
              /\ ~DirExists(r)'
              /\ RecordedFailed(r)]_vars

(* C19: a request whose resolved file is above 250 MiB leaves no      *)
(* directory and is recorded as a failure with no saved_path; it is   *)
(* answered 400 when the history file was written with its entry, and *)
(* 500 when that write failed                                         *)
C19_OversizedRejected ==
    [][\A r \in DownloadSlots :
          ReturnsOversized(r) =>
              /\ ~DirExists(r)'
              /\ RecordedFailed(r)
              /\ req'[r].status =
                    Some(IF OnDisk(r, history_disk')
                         THEN BAD_REQUEST ELSE INTERNAL_SERVER_ERROR)]_vars

(* a request whose file was one byte above the limit has been answered *)
(* 400; its entry is in the history and in the file, its directory is  *)
(* gone                                                                *)
C19_Witness ==
    \E r \in DownloadSlots :
        /\ req[r].pc = "done"
        /\ req[r].outcome = "oversized"
        /\ req[r].status = Some(BAD_REQUEST)
        /\ \E k \in DOMAIN history :
              /\ history[k].id = r
              /\ history[k].status = "failed"
              /\ history[k].saved_path = None
        /\ OnDisk(r, history_disk)
        /\ ~DirExists(r)

(* the handler of slot r has returned the download *)
Delivered(r) ==
    /\ req[r].pc = "done"
    /\ req[r].status = Some(STATUS_OK)

(* C17: for every job that completed successfully the directory is, in *)
(* the end, no longer on disk: the retention window elapses and the    *)
(* detached task then runs cleanup_download_job                        *)
C17_RetentionEndsInRemoval ==
    \A r \in DownloadSlots : Delivered(r) ~> ~DirExists(r)

(* the retention window of a delivered job has just elapsed, its task *)
(* has run and its directory is gone, long before a stale sweep would *)
(* have taken it                                                      *)
C17_Witness ==
    \E r \in DownloadSlots :
        /\ Delivered(r)
        /\ now = Seconds(DOWNLOAD_JOB_RETENTION_SECONDS)
        /\ \A task \in cleanup_tasks : task.job # r
        /\ ~DirExists(r)

(* ------------------------------------------------------------------ *)
(* Claims about the durable rate-limit document                        *)
(* ------------------------------------------------------------------ *)
(* C21: an attempt that was admitted is in the durable rate-limit      *)
(* document from the moment register_download_attempt returns Ok, for  *)
(* as long as it is inside the trailing window: the document holds     *)
(* every such timestamp as many times as it was admitted               *)
C21_AdmittedIsDurable ==
    \A c \in Clients :
        \A t \in Range(admitted[c]) :
            t > WindowStart(now) =>
                Count(rate_disk[c], t) >= Count(admitted[c], t)

(* register_download_attempt of slot r returns the 500 of a failed *)
(* persist_rate_limits                                             *)
AbortsUnwritten(r) ==
    /\ req[r].pc = "rl_persist"
    /\ req'[r].pc = "done"
    /\ req'[r].status = Some(INTERNAL_SERVER_ERROR)

(* C22: when persist_rate_limits fails during admit the request ends  *)
(* with 500 without going on to the permit, and the table in memory   *)
(* keeps no attempt of it that the durable document does not hold:    *)
(* the timestamp of the request is in the client's list in memory at  *)
(* most as often as in the document                                   *)
C22_AbortLeavesNoAttempt ==
    [][\A r \in DownloadSlots :
          AbortsUnwritten(r) =>
              Count(rate_limits'[req[r].client], req[r].now)
                  <= Count(rate_disk'[req[r].client], req[r].now)]_vars

(* ------------------------------------------------------------------ *)
(* Claims about the resolution of the downloaded file                  *)
(* ------------------------------------------------------------------ *)
(* a regular file whose canonical path is in the job directory *)
ValidFile(c) == c.meta = "file" /\ c.canon = "inside"

(* a path that is written as one outside the job directory and does *)
(* not lead into it                                                 *)
LiesOutside(c) == c.literal = "outside" /\ ~ValidFile(c)

(* the extractor printed a path outside the job directory: taken as *)
(* written and taken from the job directory it lies outside         *)
PrintsOutside ==
    /\ resolution.printed # None
    /\ LiesOutside(resolution.printed[1].given)
    /\ LiesOutside(resolution.printed[1].joined)

(* two results are the same success, or both a failure *)
SameOutcome(a, b) ==
    /\ a.ok = b.ok
    /\ a.ok => (a.from = b.from /\ a.file = b.file)

(* what resolve_downloaded_file makes of the job directory alone *)
ScanAlone ==
    ResolveDownloadedFile(resolution.dir_ok, None, resolution.readable,
                          resolution.listing)

(* C23: the path resolve_downloaded_file returns is a regular file     *)
(* whose canonical path is inside the canonical job directory; a       *)
(* printed path outside the job directory is ignored, so that the      *)
(* result is that of scanning the job directory; and a resolution that *)
(* finds no valid file fails with 500                                  *)
C23_ResolvedInsideJobDir ==
    resolution.pc = "resolved" =>
        LET res == resolution.result[1]
        IN /\ res.ok => ValidFile(res.file)
           /\ PrintsOutside => SameOutcome(res, ScanAlone)
           /\ ~res.ok => PreparationStatus("unresolved") = INTERNAL_SERVER_ERROR

(* whatever is printed and listed, a path that is returned is a valid *)
(* file, and a printed path outside the job directory that can be     *)
(* examined is passed over for the scan                               *)
ResolvedFileIsValid ==
    resolution.pc = "resolved" =>
        LET res == resolution.result[1]
            given == resolution.printed[1].given
            joined == resolution.printed[1].joined
        IN /\ res.ok => ValidFile(res.file)
           /\ (/\ PrintsOutside
               /\ given.meta # "error" /\ joined.meta # "error"
               /\ given.canon # "error" /\ joined.canon # "error")
                 => SameOutcome(res, ScanAlone)

(* ------------------------------------------------------------------ *)
(* Claims about the history across a restart                           *)
(* ------------------------------------------------------------------ *)
(* what get_history answers to client c: its entries as they are *)
(* serialized into the response                                  *)
Answer(list, c) == SerializeHistory(FilterTake(list, c))

(* the history document is the history in memory, as push_history *)
(* wrote it                                                       *)
Persisted == history_disk = SerializeHistory(history)

(* C24: when the history has been persisted and the process restarts, *)
(* get_history answers every client after the restart what it would  *)
(* have answered before it                                            *)
C24_ScopedHistorySurvives ==
    [][(Restart /\ Persisted) =>
          \A c \in Clients : Answer(history', c) = Answer(history, c)]_vars

(* ------------------------------------------------------------------ *)
(* Claims about the status of a failure                                *)
(* ------------------------------------------------------------------ *)
(* the answers of the verification service that are a failed check *)
ServiceRejections ==
    {"transport_error", "http_error", "bad_body", "success_false"}

(* C25: a failure is reported with the status of its class: a request  *)
(* turned away by the quota gets 429 with a Retry-After, a failed bot  *)
(* check 403, and a verification service that did not answer within   *)
(* its bound 400                                                       *)
C25_StatusByClass ==
    \A r \in DownloadSlots :
        req[r].pc = "done" =>
            /\ req[r].retry # None
                  => req[r].status = Some(TOO_MANY_REQUESTS) /\ req[r].retry[1] > 0
            /\ (req[r].payload # None /\ ServiceAnswer(r) \in ServiceRejections)
                  => req[r].status = Some(FORBIDDEN)
            /\ (req[r].payload # None /\ ServiceAnswer(r) = "timeout")
                  => req[r].status = Some(BAD_REQUEST)

(* ------------------------------------------------------------------ *)
(* Claims about start_download as a whole                              *)
(* ------------------------------------------------------------------ *)
(* the extraction of the request of slot r failed, timed out or gave *)
(* an oversized file, and its handler has returned                    *)
ExtractionFailed(r) ==
    /\ req[r].pc = "done"
    /\ req[r].outcome \in {"mkdir_error", "timeout", "oversized"}

(* C26: a quota slot consumed by an admitted attempt is not given back, *)
(* whatever becomes of the job that follows: as long as the attempt is  *)
(* inside the trailing window its timestamp is in the client's list in  *)
(* memory, as often as it was admitted, and counts toward the limit     *)
C26_QuotaSlotNotRefunded ==
    \A c \in Clients :
        \A t \in Range(admitted[c]) :
            t > WindowStart(now) =>
                Count(rate_limits[c], t) >= Count(admitted[c], t)

(* the client was one attempt short of its limit; its request was    *)
(* admitted and the extraction failed; the attempt is still counted, *)
(* and the client's next request was turned away with 429            *)
C26_Witness ==
    \E r, q \in DownloadSlots :
        /\ r < q
        /\ ExtractionFailed(r)
        /\ Len(admitted["1.2.3.4"]) = DOWNLOAD_LIMIT_PER_DAY
        /\ Len(rate_limits["1.2.3.4"]) = DOWNLOAD_LIMIT_PER_DAY
        /\ req[q].pc = "done"
        /\ req[q].status = Some(TOO_MANY_REQUESTS)

(* the part of start_download a handler is in: 1 the bot check (line  *)
(* 536), 2 the rate-limit admission (537), 3 the wait for a permit    *)
(* (538-543), 4 the workspace and the extraction (544 on), 5 returned *)
Stage(pc) ==
    CASE pc = "idle" -> 0
      [] pc \in {"turnstile", "ab_lock", "verified"} -> 1
      [] pc \in {"rl_lock", "rl_persist"} -> 2
      [] pc = "acquire" -> 3
      [] pc \in {"prepare", "hist_lock", "hist_persist", "discard"} -> 4
      [] pc = "done" -> 5

(* this step is a step of the handler of slot r *)
Moves(r) == req'[r] # req[r]

(* C27: a download request goes through bot check, rate-limit admission, *)
(* permit and workspace in that order, a stage at a time or out by a     *)
(* return.  The steps of the bot check leave the rate-limit table, its   *)
(* document and the permits alone, and a 403 is returned from the bot    *)
(* check only: a request rejected there consumes no quota slot.  The     *)
(* steps up to the end of the admission leave the permits and the job    *)
(* directories alone, and a 429 is returned from the admission only: a   *)
(* request rejected by the quota holds no permit and made no workspace.  *)
(* The step that takes the permit makes no directory.                    *)
C27_FixedOrder ==
    [][\A r \in DownloadSlots :
          Moves(r) =>
              LET from == Stage(req[r].pc)
                  to == Stage(req'[r].pc)
              IN /\ to \in {from, from + 1, 5}
                 /\ from <= 1 => UNCHANGED <<rate_limits, rate_disk, admitted>>
                 /\ from <= 2 => UNCHANGED <<download_semaphore, transfer_dir>>
                 /\ from = 3 => UNCHANGED transfer_dir
                 /\ req'[r].status = Some(FORBIDDEN) => from <= 1
                 /\ req'[r].status = Some(TOO_MANY_REQUESTS) => from = 2]_vars

(* a client at its limit: one of its requests was rejected by the bot *)
(* check and one by the quota; the table holds what it held, no       *)
(* permit is out and there is no job directory                        *)
C27_Witness ==
    \E r, q \in DownloadSlots :
        /\ req[r].pc = "done" /\ req[r].status = Some(FORBIDDEN)
        /\ req[q].pc = "done" /\ req[q].status = Some(TOO_MANY_REQUESTS)
        /\ Len(rate_limits["1.2.3.4"]) = DOWNLOAD_LIMIT_PER_DAY
        /\ Len(admitted["1.2.3.4"]) = DOWNLOAD_LIMIT_PER_DAY
        /\ download_semaphore = 1
        /\ transfer_dir = {}

(* ------------------------------------------------------------------ *)
(* Claims about the retry delay                                        *)
(* ------------------------------------------------------------------ *)
(* the request of slot q was rejected with 429; the request of slot r, *)
(* of the same client, reads the clock exactly retry_after seconds     *)
(* after q did, and the client made no attempt in between              *)
WaitedOut(q, r) ==
    /\ req[q].pc = "done"
    /\ req[q].status = Some(TOO_MANY_REQUESTS)
    /\ req[q].client = req[r].client
    /\ req[r].now = req[q].now + Seconds(req[q].retry[1])
    /\ \A t \in Range(rate_limits[req[r].client]) : t <= req[q].now

(* C28: the retry_after of a quota rejection is long enough: a client *)
(* that waits exactly retry_after seconds after a rejection and tries *)
(* again, with no other attempt in between, is admitted               *)
C28_RetryAfterWaitIsAdmitted ==
    [][\A r \in DownloadSlots :
          (/\ req[r].pc = "rl_lock"
           /\ req'[r].pc = "rl_persist"
           /\ \E q \in DownloadSlots : WaitedOut(q, r))
          => req'[r].retry = None]_vars

(* ------------------------------------------------------------------ *)
(* Claims about locks and I/O                                          *)
(* ------------------------------------------------------------------ *)
(* The critical sections hold no await, so a lock is held within one *)
(* step; I/O under a lock would be a step that changes a locked      *)
(* table together with a document or directory, or a call to the     *)
(* verification service or to the extractor that changes a table.    *)
TablesUnchanged == UNCHANGED <<rate_limits, history, anti_bot_challenges>>

StorageUnchanged == UNCHANGED <<rate_disk, history_disk, transfer_dir>>

(* the handler of slot r is at a call over the network or to the extractor *)
AtRemoteCall(r) == req[r].pc \in {"turnstile", "prepare"}

(* C29: no handler does durable-storage or network I/O while it holds *)
(* the rate-limit, history or challenge lock.  A step that changes a  *)
(* locked table changes no document and no directory, and the calls   *)
(* to the verification service and the extractor change no table; the *)
(* snapshot a handler takes under the lock is the table as it leaves  *)
(* it, and what it writes afterwards is that snapshot                 *)
C29_NoIoUnderLock ==
    [][/\ TablesUnchanged \/ StorageUnchanged
       /\ \A r \in Slots :
             /\ (AtRemoteCall(r) /\ Moves(r)) => TablesUnchanged
             /\ (req[r].pc = "rl_lock" /\ req'[r].pc = "rl_persist")
                    => req'[r].snapshot = rate_limits'
             /\ req'[r].pc \in {"hist_persist", "clear_persist"} /\ Moves(r)
                    => req'[r].hsnap = history'
       /\ rate_disk' # rate_disk
              => \E r \in Slots : /\ req[r].pc = "rl_persist" /\ Moves(r)
                                  /\ rate_disk' = req[r].snapshot
       /\ history_disk' # history_disk
              => \E r \in Slots :
                    /\ req[r].pc \in {"hist_persist", "clear_persist"}
                    /\ Moves(r)
                    /\ history_disk' = SerializeHistory(req[r].hsnap)]_vars

(* a challenge was issued; a download handler wrote the rate-limit   *)
(* document and the history from its snapshots and served the file;  *)
(* then the history was cleared and written again                    *)
C29_Witness ==
    /\ DOMAIN issued # {}
    /\ rate_disk # EmptyRateLimits
    /\ history_disk = <<>>
    /\ \E r, q \in DownloadSlots :
          /\ req[r].pc = "done"
          /\ req[r].status = Some(STATUS_OK)
          /\ req[r].outcome = "success"
          /\ req[q].pc = "done"
          /\ req[q].status = Some(STATUS_OK)
          /\ req[q].outcome = "cleared"

(* ------------------------------------------------------------------ *)
(* Claims about the size and age of the challenge table                *)
(* ------------------------------------------------------------------ *)
(* the handler of slot r leaves the critical section of *)
(* create_antibot_challenge in this step                *)
Issues(r) == req[r].pc = "ch_lock" /\ req'[r].pc # "ch_lock"

(* the instants of creation of the challenges with the ids given *)
Stamps(table, ids) == {table[i].created_at : i \in ids}

(* the table is not above the ceiling after the step *)
CeilingKept == Cardinality(DOMAIN anti_bot_challenges') <= MAX_ANTIBOT_CHALLENGES

(* no challenge left in the table was made more than the TTL before *)
(* the instant `at`                                                  *)
NoneOlderThanTtl(at) ==
    \A t \in Stamps(anti_bot_challenges', DOMAIN anti_bot_challenges') :
        at - t <= Seconds(ANTIBOT_CHALLENGE_TTL_SECONDS)

(* every challenge the step took out was made no later than any *)
(* challenge it left in                                          *)
EvictsOldest ==
    \A gone \in Stamps(anti_bot_challenges,
                       DOMAIN anti_bot_challenges \ DOMAIN anti_bot_challenges') :
        \A kept \in Stamps(anti_bot_challenges', DOMAIN anti_bot_challenges') :
            gone <= kept

(* C30: after every issuance the challenge table holds at most         *)
(* MAX_ANTIBOT_CHALLENGES entries and none that was older than the TTL *)
(* at the instant of the issuance, and the entries taken out are those *)
(* with the smallest created_at                                        *)
C30_TableBoundedAndFresh ==
    [][\A r \in Slots :
          Issues(r) => /\ CeilingKept
                       /\ NoneOlderThanTtl(req[r].now)
                       /\ EvictsOldest]_vars

(* an issuance keeps the ceiling and takes out the oldest entries *)
CeilingAndEviction ==
    [][\A r \in Slots : Issues(r) => CeilingKept /\ EvictsOldest]_vars

(* an issuance into a full table has taken the oldest challenge out *)
EvictedAtCeiling ==
    /\ Cardinality(DOMAIN anti_bot_challenges) = MAX_ANTIBOT_CHALLENGES
    /\ DOMAIN issued \subseteq DOMAIN anti_bot_challenges
    /\ DOMAIN issued # {}
    /\ -1 \notin DOMAIN anti_bot_challenges

(* ------------------------------------------------------------------ *)
(* Claims about the fallback of resolve_downloaded_file                *)
(* ------------------------------------------------------------------ *)
(* a path that is missing, that cannot be examined, or that is a file *)
(* whose canonical path is outside the job directory                  *)
Unusable(c) ==
    \/ c.meta \in {"not_found", "error"}
    \/ c.meta = "file" /\ c.canon \in {"error", "outside"}

(* nothing was printed, or the printed path is unusable both as *)
(* written and joined to the job directory                      *)
PrintedUnusable ==
    \/ resolution.printed = None
    \/ /\ resolution.printed # None
       /\ Unusable(resolution.printed[1].given)
       /\ Unusable(resolution.printed[1].joined)

(* C31: when the printed path is missing, unreadable or escapes the job *)
(* directory, resolve_downloaded_file does not fail on it: its result   *)
(* is that of the scan of the job directory, and a file it returns is   *)
(* the first entry of the listing that is a valid regular file          *)
C31_FallsBackToScan ==
    (resolution.pc = "resolved" /\ PrintedUnusable) =>
        LET res == resolution.result[1]
        IN /\ SameOutcome(res, ScanAlone)
           /\ res.ok => /\ res.from \in DOMAIN resolution.listing
                        /\ \A k \in 1..(res.from - 1) :
                              ~ValidFile(resolution.listing[k])

(* the fallback as the code has it: a printed path that is not found, *)
(* or a file that canonicalizes outside, gives way to the scan        *)
FallsBackWhenExamined ==
    (/\ resolution.pc = "resolved"
     /\ resolution.printed # None
     /\ \A c \in {resolution.printed[1].given, resolution.printed[1].joined} :
           \/ c.meta = "not_found"
           \/ c.meta = "file" /\ c.canon = "outside")
        => SameOutcome(resolution.result[1], ScanAlone)

(* ------------------------------------------------------------------ *)
(* Claims about the life cycle of a download job                       *)
(* ------------------------------------------------------------------ *)
(* Where the job of slot r stands.  create_dir_all, the extraction and *)
(* the removal after a failed preparation are one step, so a job is    *)
(* first seen as populated (the preparation gave a file) or as failed; *)
(* the response is returned in the step that schedules the removal, so *)
(* a delivered job is seen as retained.                                *)
JobPhase(r) ==
    IF req[r].pc \in {"hist_lock", "hist_persist", "discard"}
    THEN IF req[r].outcome = "success" THEN "populated" ELSE "failed"
    ELSE IF req[r].pc = "done" /\ req[r].outcome # "killed"
    THEN IF DirExists(r)
         THEN IF req[r].status = Some(STATUS_OK) THEN "retained" ELSE "failed"
         ELSE "deleted"
    ELSE "none"

(* Created -> Populated -> Delivered -> Retained -> Deleted and *)
(* Created -> Failed -> Deleted, as the steps show them         *)
LifecycleMoves ==
    {<<"none", "populated">>, <<"populated", "retained">>,
     <<"retained", "deleted">>, <<"none", "failed">>, <<"failed", "deleted">>}

(* C32: a download job moves along Created -> Populated -> Delivered -> *)
(* Retained -> Deleted or Created -> Failed -> Deleted only: none is    *)
(* delivered after it failed, none is deleted while populated, none is  *)
(* retained without having been delivered                               *)
C32_JobLifecycle ==
    [][\A r \in DownloadSlots :
          \/ JobPhase(r)' = JobPhase(r)
          \/ <<JobPhase(r), JobPhase(r)'>> \in LifecycleMoves]_vars

(* the life cycle with the removal of a populated job added to it *)
LifecycleOrDiscard ==
    [][\A r \in DownloadSlots :
          \/ JobPhase(r)' = JobPhase(r)
          \/ <<JobPhase(r), JobPhase(r)'>>
                 \in LifecycleMoves \cup {<<"populated", "deleted">>}]_vars

(* ------------------------------------------------------------------ *)
(* Claims about the stale sweep                                        *)
(* ------------------------------------------------------------------ *)
(* the directory of job r is on disk, and nothing in the process is *)
(* going to remove it: its handler is gone and no task waits for it *)
Orphaned(r) ==
    /\ DirExists(r)
    /\ req[r].pc = "done"
    /\ \A task \in cleanup_tasks : task.job # r

(* the directory of job r is as old as the stale threshold *)
Stale(r) ==
    \E d \in transfer_dir :
        d.job = r /\ now - d.modified >= Seconds(STALE_DOWNLOAD_JOB_SECONDS)

(* C33: a job directory that a crash or restart left behind is in the *)
(* end removed by the stale sweep, once it is older than 2 hours      *)
C33_StaleSweepReclaims ==
    \A r \in DownloadSlots : (Orphaned(r) /\ Stale(r)) ~> ~DirExists(r)

(* a stale sweep runs in this step: at the start of the process, or as *)
(* the handler of slot r begins its job                                *)
SweepRuns == Restart \/ \E r \in DownloadSlots : req[r].pc = "prepare" /\ Moves(r)

(* every sweep leaves only directories younger than the threshold *)
SweepTakesStale ==
    [][SweepRuns =>
          \A d \in transfer_dir' :
              now - d.modified < Seconds(STALE_DOWNLOAD_JOB_SECONDS)]_vars

(* the extractor of job q is running *)
Extracting(q) == req[q].pc = "extract"

(* job q was delivered and its retention window has not ended *)
InRetention(q) == \E task \in cleanup_tasks : task.job = q /\ now < task.due

(* C37: a stale sweep, at the start of the process or by a request    *)
(* before its job, removes only entries whose age is at least 2 hours *)
(* and never the directory of a job that is still extracting or still *)
(* inside its retention window                                        *)
C37_SweepSparesLiveJobs ==
    [][SweepRuns =>
          \A d \in transfer_dir \ transfer_dir' :
              /\ now - d.modified >= Seconds(STALE_DOWNLOAD_JOB_SECONDS)
              /\ ~Extracting(d.job)
              /\ ~InRetention(d.job)]_vars

(* three minutes after a job was delivered another request has swept *)
(* and made its directory; the delivered job's directory is there    *)
C37_Witness ==
    \E r, q \in DownloadSlots :
        /\ now = Seconds(YT_DLP_TIMEOUT_SECONDS)
        /\ Extracting(r)
        /\ [job |-> r, modified |-> now] \in transfer_dir
        /\ Delivered(q)
        /\ InRetention(q)
        /\ DirExists(q)

(* ------------------------------------------------------------------ *)
(* Claims about what a rejected validation leaves behind               *)
(* ------------------------------------------------------------------ *)
(* the request of slot r is at fault in a field that validate_antibot *)
(* reads before it looks the challenge up                             *)
EarlyFault(r) ==
    /\ req[r].payload # None
    /\ \/ HoneypotTripped(r)
       \/ TooFast(r)
       \/ req[r].payload[1].cid = None
       \/ req[r].payload[1].sol = None

(* C34: a validation attempt that is rejected before the challenge  *)
(* lookup (honeypot not blank, elapsed time below 900 ms or absent, *)
(* no challenge id, no solution) is answered 403 and leaves the     *)
(* challenge table, the rate-limit table and the history as they    *)
(* were: the challenge it names stays in the table                  *)
C34_EarlyRejectionTouchesNothing ==
    [][\A r \in DownloadSlots :
          (Moves(r) /\ EarlyFault(r)')
              => /\ req'[r].pc = "done"
                 /\ req'[r].status = Some(FORBIDDEN)
                 /\ UNCHANGED <<anti_bot_challenges, rate_limits, rate_disk,
                                history, history_disk>>]_vars

(* a request that named a live challenge and was rejected for its *)
(* elapsed time; a later request presented the same challenge and *)
(* was verified                                                   *)
C34_Witness ==
    \E r, q \in DownloadSlots, i \in Ids :
        /\ r < q
        /\ RejectedAt(r, "elapsed")
        /\ req[r].payload[1].cid = Some(i)
        /\ req[q].pc = "verified"
        /\ req[q].payload[1].cid = Some(i)
        /\ Len(passed[i]) = 1

(* ------------------------------------------------------------------ *)
(* Claims about the documents once the handlers have returned          *)
(* ------------------------------------------------------------------ *)
(* no handler is under way and none has ended with a 500, which is how *)
(* a failed write of either document ends                              *)
Quiescent ==
    \A r \in Slots :
        /\ req[r].pc \in {"idle", "done"}
        /\ req[r].status # Some(INTERNAL_SERVER_ERROR)

(* C35: once every request has completed and none met a persistence  *)
(* error, the rate-limit document equals the rate-limit table and    *)
(* the history document is the history list, entry by entry in the   *)
(* same order, whatever the interleaving of the requests was         *)
C35_DocumentsMatchWhenQuiescent ==
    Quiescent =>
        /\ rate_disk = rate_limits
        /\ history_disk = SerializeHistory(history)

(* ------------------------------------------------------------------ *)
(* Claims about waiting for a permit                                   *)
(* ------------------------------------------------------------------ *)
(* C36: a request that the rate limiter admitted and that waits for a *)
(* download permit comes to hold one, and its handler returns, when   *)
(* the extraction of every permit holder ends                         *)
C36_WaiterIsServed ==
    \A r \in Slots :
        /\ (req[r].pc = "acquire") ~> HoldsPermit(r)
        /\ (req[r].pc = "acquire") ~> (req[r].pc = "done" /\ req[r].status # None)

(* a request waits while another holds the only permit *)
C36_Witness ==
    \E r, q \in Slots :
        /\ max_concurrent_downloads = 1
        /\ download_semaphore = 0
        /\ HoldsPermit(r)
        /\ req[q].pc = "acquire"

====
